---------------------------- MODULE Spec2Model ----------------------------
(***************************************************************************)
(* Model of the colour-grading core of mapboxgl-theme-editor:              *)
(*   utils/colorUtils.ts  (rgbToHsv, hsvToRgb, interpolateCurve)           *)
(*   utils/lutUtils.ts    (matchesColorRange, applyColorCorrections,       *)
(*                         generateLUT, applyLUTToImage)                   *)
(*   components/ColorCorrectionPanel.tsx, ColorCorrectionPopover           *)
(*                        (calculateOutputColor)                           *)
(*                                                                         *)
(* JavaScript numbers are modelled as rationals <<n, d>> in lowest terms   *)
(* with d > 0.  Every +, -, *, / of the source is computed exactly as long *)
(* as the result's denominator is at most Precision; a result with a       *)
(* larger denominator is rounded to the nearest multiple of 1/Precision,   *)
(* as a double rounds each result to 53 bits.  On the grids the inputs are *)
(* drawn from (n/15, n/4, n/255 ...) the conversions and the curves are    *)
(* therefore computed exactly.  Math.sin and Math.cos have no rational     *)
(* values in general;                                                      *)
(* they are modelled by Bhaskara's rational approximation, which is exact  *)
(* at the multiples of 30 degrees that the properties below rely on        *)
(* (sin 0 = 0, sin 90 = 1, cos 0 = 1, cos 90 = 0).  Math.pow(2, e) is      *)
(* modelled for integer e.                                                 *)
(***************************************************************************)
EXTENDS Integers, Sequences, FiniteSets, TLC

(***************************************************************************)
(* Exact rational arithmetic                                               *)
(***************************************************************************)
Abs(n) == IF n < 0 THEN -n ELSE n

RECURSIVE GCD(_, _)
GCD(a, b) == IF b = 0 THEN a ELSE GCD(b, a % b)

Norm(n, d) ==
  LET over(g) == <<n \div g, d \div g>>
  IN  IF n = 0 THEN <<0, 1>> ELSE over(GCD(Abs(n), d))

\* the finest grid the model rounds to is 1/2^PrecisionBits
PrecisionBits == 13
Precision == 2 ^ PrecisionBits

RECURSIVE LongDiv(_, _, _, _)
\* floor(r * 2^k / d) + acc * 2^k for 0 <= r < d, three binary digits per
\* step so that no product leaves the 32-bit integers
LongDiv(r, d, k, acc) ==
  IF k = 0 \/ r = 0 THEN acc * 2 ^ k
  ELSE LET digits(s, m) == LongDiv(m % d, d, k - s, acc * 2 ^ s + m \div d)
       IN  IF k >= 3 THEN digits(3, r * 8) ELSE digits(k, r * 2 ^ k)

\* the multiple of 1/Precision nearest to n/d (ties upward)
RoundToGrid(n, d) ==
  LET ip   == n \div d
      rem  == n % d
      bits == LongDiv(rem, d, PrecisionBits + 1, 0)
  IN  Norm(ip * Precision + ((bits + 1) \div 2), Precision)

\* a result as the model stores it
Fit(q) == IF q[2] <= Precision THEN q ELSE RoundToGrid(q[1], q[2])

Q(n, d) == Norm(n, d)
Zero == <<0, 1>>
One  == <<1, 1>>
Half == <<1, 2>>

RNeg(a) == <<-a[1], a[2]>>

RAdd(a, b) ==
  IF a[1] = 0 THEN b
  ELSE IF b[1] = 0 THEN a
  ELSE LET \* a and b are in lowest terms, so n and d share only factors
           \* of g, the greatest common divisor of the denominators
           lowest(n, d, h) == Fit(<<n \div h, d \div h>>)
           sum(n, d, g) == IF n = 0 THEN Zero ELSE lowest(n, d, GCD(Abs(n), g))
           over(g) == sum(a[1] * (b[2] \div g) + b[1] * (a[2] \div g),
                          (a[2] \div g) * b[2], g)
       IN  over(GCD(a[2], b[2]))

RSub(a, b) == RAdd(a, RNeg(b))

RMul(a, b) ==
  IF a[1] = 0 \/ b[1] = 0 THEN Zero
  ELSE LET cancelled(g1, g2) ==
             Fit(<<(a[1] \div g1) * (b[1] \div g2), (a[2] \div g2) * (b[2] \div g1)>>)
       IN  cancelled(GCD(Abs(a[1]), b[2]), GCD(Abs(b[1]), a[2]))

RInv(a) == IF a[1] > 0 THEN <<a[2], a[1]>> ELSE <<-a[2], -a[1]>>

RDiv(a, b) == RMul(a, RInv(b))

RLt(a, b) == a[1] * b[2] < b[1] * a[2]
RLe(a, b) == a[1] * b[2] <= b[1] * a[2]
RGt(a, b) == RLt(b, a)
RGe(a, b) == RLe(b, a)

RMax(a, b) == IF RLt(a, b) THEN b ELSE a
RMin(a, b) == IF RLt(b, a) THEN b ELSE a
RAbs(a) == <<Abs(a[1]), a[2]>>

\* Math.floor
RFloor(a) == a[1] \div a[2]

\* truncation toward zero, the integer part the JavaScript % operator removes
RTrunc(a) == IF a[1] >= 0 THEN a[1] \div a[2] ELSE -((-a[1]) \div a[2])

\* JavaScript  x % 1  (the result has the sign of x)
RMod1(a) == RSub(a, <<RTrunc(a), 1>>)

\* Math.max(0, Math.min(1, x))
Clamp01(a) == RMax(Zero, RMin(One, a))

In01(a) == RLe(Zero, a) /\ RLe(a, One)

(***************************************************************************)
(* colorUtils.ts                                                           *)
(***************************************************************************)
\* lines 7-27
rgbToHsv(r, g, b) ==
  LET h(max, delta) ==
        IF delta # Zero
        THEN IF max = r
             THEN RDiv(RAdd(RDiv(RSub(g, b), delta),
                            IF RLt(g, b) THEN <<6, 1>> ELSE Zero), <<6, 1>>)
             ELSE IF max = g
                  THEN RDiv(RAdd(RDiv(RSub(b, r), delta), <<2, 1>>), <<6, 1>>)
                  ELSE RDiv(RAdd(RDiv(RSub(r, g), delta), <<4, 1>>), <<6, 1>>)
        ELSE Zero
      s(max, delta) == IF max = Zero THEN Zero ELSE RDiv(delta, max)
      hsv(max, delta) == <<h(max, delta), s(max, delta), max>>
      extremes(max, min) == hsv(max, RSub(max, min))
  IN  extremes(RMax(r, RMax(g, b)), RMin(r, RMin(g, b)))

\* JavaScript  i % 6  for an integer i (sign of the dividend)
JsMod6(i) == IF i >= 0 THEN i % 6 ELSE -((-i) % 6)

\* lines 30-46
hsvToRgb(h, s, v) ==
  LET switch(k, p, q, t) ==
        CASE k = 0 -> <<v, t, p>>
          [] k = 1 -> <<q, v, p>>
          [] k = 2 -> <<p, v, t>>
          [] k = 3 -> <<p, q, v>>
          [] k = 4 -> <<t, p, v>>
          [] k = 5 -> <<v, p, q>>
          [] OTHER -> <<v, p, q>>
      sector(i, f) ==
        switch(JsMod6(i),
               RMul(v, RSub(One, s)),
               RMul(v, RSub(One, RMul(f, s))),
               RMul(v, RSub(One, RMul(RSub(One, f), s))))
      \* i = Math.floor(h * 6), f = h * 6 - i
      floored(h6, i) == sector(i, RSub(h6, <<i, 1>>))
      scaled(h6) == floored(h6, RFloor(h6))
  IN  scaled(RMul(h, <<6, 1>>))

\* the for loop of interpolateCurve from index i on; curve is a sequence of
\* points [x |-> _, y |-> _] (1-based here, 0-based in the source)
RECURSIVE curveScan(_, _, _)
curveScan(input, curve, i) ==
  IF i > Len(curve) - 1
  THEN curve[Len(curve)].y
  ELSE IF RGe(input, curve[i].x) /\ RLe(input, curve[i + 1].x)
       THEN LET t == RDiv(RSub(input, curve[i].x), RSub(curve[i + 1].x, curve[i].x))
            IN  RAdd(curve[i].y, RMul(t, RSub(curve[i + 1].y, curve[i].y)))
       ELSE curveScan(input, curve, i + 1)

interpolateCurve(input, curve) == curveScan(Clamp01(input), curve, 1)


(***************************************************************************)
(* lutUtils.ts: targeted colour corrections                                *)
(*                                                                         *)
(* A colour is a triple <<r, g, b>> of rationals.  A correction is a       *)
(* record [id, enabled, targetColor, tolerance, adjustments] as in the     *)
(* ColorCorrection interface.                                              *)
(***************************************************************************)

\* if (h < 0) h += 1, the statement that follows every hue shift
wrapHue(h) == IF RLt(h, Zero) THEN RAdd(h, One) ELSE h

\* the distance with the hue difference left unfolded: |h - targetH| up to 1
hsvDistanceUnfolded(r, g, b, targetR, targetG, targetB) ==
  LET distanceSq(hueDiff, satDiff, valDiff) ==
        RDiv(RAdd(RMul(RMul(hueDiff, hueDiff), <<2, 1>>),
                  RAdd(RMul(satDiff, satDiff), RMul(valDiff, valDiff))),
             <<4, 1>>)
      between(hsv, target) ==
        distanceSq(RAbs(RSub(hsv[1], target[1])),
                   RAbs(RSub(hsv[2], target[2])),
                   RAbs(RSub(hsv[3], target[3])))
  IN  between(rgbToHsv(r, g, b), rgbToHsv(targetR, targetG, targetB))

\* lines 50-61: the square of the source's `distance`.  The source takes
\* Math.sqrt(2*dh^2 + ds^2 + dv^2) / Math.sqrt(4); the model keeps the square
\* (2*dh^2 + ds^2 + dv^2) / 4, which is rational.
hsvDistanceSq(r, g, b, targetR, targetG, targetB) ==
  LET distanceSq(hueDiff, satDiff, valDiff) ==
        RDiv(RAdd(RMul(RMul(hueDiff, hueDiff), <<2, 1>>),
                  RAdd(RMul(satDiff, satDiff), RMul(valDiff, valDiff))),
             <<4, 1>>)
      \* if (hueDiff > 0.5) hueDiff = 1 - hueDiff
      hueDiff(absDiff) == IF RGt(absDiff, Half) THEN RSub(One, absDiff) ELSE absDiff
      between(hsv, target) ==
        distanceSq(hueDiff(RAbs(RSub(hsv[1], target[1]))),
                   RAbs(RSub(hsv[2], target[2])),
                   RAbs(RSub(hsv[3], target[3])))
  IN  between(rgbToHsv(r, g, b), rgbToHsv(targetR, targetG, targetB))

\* a falloff that rises with the distance instead of falling: 1 - cos
risingFalloff(uSq) == RDiv(RMul(<<5, 1>>, uSq), RAdd(<<4, 1>>, uSq))

\* Math.cos(u * Math.PI * 0.5) as a function of uSq = u^2, for 0 <= u:
\* Bhaskara's approximation cos z ~ (pi^2 - 4 z^2) / (pi^2 + z^2) at z = u*pi/2
cosHalfPi(uSq) ==
  RDiv(RMul(<<4, 1>>, RSub(One, uSq)), RAdd(<<4, 1>>, uSq))

\* the falloff without the early return for distance > tolerance
matchesWithoutCutoff(r, g, b, targetR, targetG, targetB, tolerance) ==
  LET dSq == hsvDistanceSq(r, g, b, targetR, targetG, targetB)
  IN  cosHalfPi(RDiv(dSq, RMul(tolerance, tolerance)))

\* lines 39-68; distance > tolerance, both non-negative, is decided on the
\* squares
matchesColorRange(r, g, b, targetR, targetG, targetB, tolerance) ==
  LET falloff(dSq, tolSq) ==
        IF RGt(dSq, tolSq) THEN Zero ELSE cosHalfPi(RDiv(dSq, tolSq))
  IN  falloff(hsvDistanceSq(r, g, b, targetR, targetG, targetB),
              RMul(tolerance, tolerance))

\* the adjustment without its brightness multiplication
adjustWithoutBrightness(red, green, blue, correction, strength) ==
  LET adj == correction.adjustments
      shifted(hsv) ==
        hsvToRgb(wrapHue(RMod1(RAdd(hsv[1], RDiv(adj.hueShift, <<360, 1>>)))),
                 Clamp01(RAdd(hsv[2], RMul(adj.saturationShift, strength))),
                 Clamp01(RAdd(hsv[3], RMul(adj.valueShift, strength))))
  IN  shifted(rgbToHsv(red, green, blue))

\* lines 88-118: the adjustment of one correction at a given strength
adjustColor(red, green, blue, correction, strength) ==
  LET adj == correction.adjustments
      \* hsv.h = (hsv.h + hueShift / 360) % 1; if (hsv.h < 0) hsv.h += 1
      hueShifted(hsv) ==
        IF adj.hueShift # Zero
        THEN [hsv EXCEPT
                ![1] = wrapHue(RMod1(RAdd(@, RDiv(adj.hueShift, <<360, 1>>))))]
        ELSE hsv
      satShifted(hsv) ==
        IF adj.saturationShift # Zero
        THEN [hsv EXCEPT
                ![2] = Clamp01(RAdd(@, RMul(adj.saturationShift, strength)))]
        ELSE hsv
      valShifted(hsv) ==
        IF adj.valueShift # Zero
        THEN [hsv EXCEPT
                ![3] = Clamp01(RAdd(@, RMul(adj.valueShift, strength)))]
        ELSE hsv
      toRgb(hsv) == hsvToRgb(hsv[1], hsv[2], hsv[3])
      brightened(rgb, brightnessMult) ==
        IF adj.brightnessShift # Zero
        THEN <<Clamp01(RMul(rgb[1], brightnessMult)),
               Clamp01(RMul(rgb[2], brightnessMult)),
               Clamp01(RMul(rgb[3], brightnessMult))>>
        ELSE rgb
  IN  brightened(
        toRgb(valShifted(satShifted(hueShifted(rgbToHsv(red, green, blue))))),
        RAdd(One, RMul(adj.brightnessShift, strength)))

\* the strength the loop body computes for one correction (lines 82-86)
correctionStrength(red, green, blue, correction) ==
  matchesColorRange(red, green, blue,
                    correction.targetColor[1], correction.targetColor[2],
                    correction.targetColor[3], correction.tolerance)

\* the loop body without the test of correction.enabled
bodyIgnoringEnabled(red, green, blue, correction) ==
  LET matched(strength) ==
        IF RGt(strength, Zero)
        THEN adjustColor(red, green, blue, correction, strength)
        ELSE <<red, green, blue>>
  IN  matched(correctionStrength(red, green, blue, correction))

\* lines 79-119: one iteration of the for loop of applyColorCorrections
correctionBody(red, green, blue, correction) ==
  IF ~correction.enabled
  THEN <<red, green, blue>>
  ELSE LET matched(strength) ==
             IF RGt(strength, Zero)
             THEN adjustColor(red, green, blue, correction, strength)
             ELSE <<red, green, blue>>
       IN  matched(correctionStrength(red, green, blue, correction))

\* lines 79-119: the for loop.  seen holds red, green, blue as they stood
\* on entry and after each iteration so far.
RECURSIVE correctionsFrom(_, _)
correctionsFrom(seen, corrections) ==
  LET i   == Len(seen)
      col == seen[i]
  IN  IF i > Len(corrections)
      THEN col
      ELSE correctionsFrom(
             Append(seen, correctionBody(col[1], col[2], col[3], corrections[i])),
             corrections)

\* lines 71-122
applyColorCorrections(r, g, b, corrections) ==
  correctionsFrom(<<(<<r, g, b>>)>>, corrections)

\* ColorCorrectionPanel.tsx lines 48-71
calculateOutputColor(correction) ==
  LET adj == correction.adjustments
      \* h = (h + hueShift / 360) % 1; if (h < 0) h += 1
      shifted(hsv) ==
        hsvToRgb(wrapHue(RMod1(RAdd(hsv[1], RDiv(adj.hueShift, <<360, 1>>)))),
                 Clamp01(RAdd(hsv[2], adj.saturationShift)),
                 Clamp01(RAdd(hsv[3], adj.valueShift)))
      brightened(out, brightnessMult) ==
        <<Clamp01(RMul(out[1], brightnessMult)),
          Clamp01(RMul(out[2], brightnessMult)),
          Clamp01(RMul(out[3], brightnessMult))>>
  IN  brightened(
        shifted(rgbToHsv(correction.targetColor[1], correction.targetColor[2],
                         correction.targetColor[3])),
        RAdd(One, adj.brightnessShift))

\* ColorCorrectionPopover (ParameterSlider.tsx lines 272-295)
popoverCalculateOutputColor(correction) ==
  LET adj == correction.adjustments
      \* h = (h + hueShift / 360) % 1; if (h < 0) h += 1
      shifted(hsv) ==
        hsvToRgb(wrapHue(RMod1(RAdd(hsv[1], RDiv(adj.hueShift, <<360, 1>>)))),
                 Clamp01(RAdd(hsv[2], adj.saturationShift)),
                 Clamp01(RAdd(hsv[3], adj.valueShift)))
      brightened(out, brightnessMult) ==
        <<Clamp01(RMul(out[1], brightnessMult)),
          Clamp01(RMul(out[2], brightnessMult)),
          Clamp01(RMul(out[3], brightnessMult))>>
  IN  brightened(
        shifted(rgbToHsv(correction.targetColor[1], correction.targetColor[2],
                         correction.targetColor[3])),
        RAdd(One, adj.brightnessShift))


(***************************************************************************)
(* lutUtils.ts: generateLUT, the body of the innermost loop (lines         *)
(* 149-266) split at the source's own comment blocks.  A parameter set p   *)
(* is a record with the fields of LUTParameters; p.exposure is an integer. *)
(***************************************************************************)
cubeSize == 16

RECURSIVE pow2(_)
\* Math.pow(2, e) for an integer e
pow2(e) == IF e = 0 THEN One
           ELSE IF e > 0 THEN RMul(<<2, 1>>, pow2(e - 1))
                ELSE RMul(Half, pow2(e + 1))

\* Math.sin(x * Math.PI) for 0 <= x <= 1 (Bhaskara): 16x(1-x) / (5 - 4x(1-x))
sinPi01(x) ==
  LET bhaskara(u) == RDiv(RMul(<<16, 1>>, u), RSub(<<5, 1>>, RMul(<<4, 1>>, u)))
  IN  bhaskara(RMul(x, RSub(One, x)))

\* Math.sin(x * Math.PI) for any x, by the period 2 and sin(pi + z) = -sin z
sinPi(x) ==
  LET signed(m, negate) == IF negate THEN RNeg(sinPi01(m)) ELSE sinPi01(m)
      reduced(m) == IF RLe(m, One) THEN signed(m, FALSE)
                                   ELSE signed(RSub(m, One), TRUE)
  IN  reduced(RSub(x, <<2 * RFloor(RDiv(x, <<2, 1>>)), 1>>))

\* lines 171-173, 249-251, 264-266
clampColor(c) == <<Clamp01(c[1]), Clamp01(c[2]), Clamp01(c[3])>>

\* the cell index divided by cubeSize instead of cubeSize - 1
normalizeBySize(r, g, b) ==
  <<Q(r, cubeSize), Q(g, cubeSize), Q(b, cubeSize)>>

\* lines 150-152
normalizeCell(r, g, b) ==
  <<Q(r, cubeSize - 1), Q(g, cubeSize - 1), Q(b, cubeSize - 1)>>

\* lines 155-158
applyExposure(c, p) ==
  LET exposed(exposureFactor) ==
        <<RMul(c[1], exposureFactor), RMul(c[2], exposureFactor),
          RMul(c[3], exposureFactor)>>
  IN  exposed(pow2(p.exposure))

\* lines 161-163
applyBrightness(c, p) ==
  <<RMul(c[1], p.brightness), RMul(c[2], p.brightness), RMul(c[3], p.brightness)>>

\* lines 166-168
applyContrast(c, p) ==
  <<RAdd(RMul(RSub(c[1], Half), p.contrast), Half),
    RAdd(RMul(RSub(c[2], Half), p.contrast), Half),
    RAdd(RMul(RSub(c[3], Half), p.contrast), Half)>>

\* lines 176-202
hsvAdjust(c, p) ==
  LET \* hsvH = (hsvH + hue / 360) % 1; if (hsvH < 0) hsvH += 1
      shifted(hsv) ==
        [hsv EXCEPT ![1] = wrapHue(RMod1(RAdd(@, RDiv(p.hue, <<360, 1>>))))]
      \* hsvS = hsvS * saturation
      saturated(hsv) == [hsv EXCEPT ![2] = RMul(@, p.saturation)]
      \* hsvS = hsvS + (1 - hsvS) * vibrancy
      vibrant(hsv) ==
        IF p.vibrancy # Zero
        THEN [hsv EXCEPT ![2] = RAdd(@, RMul(RSub(One, @), p.vibrancy))]
        ELSE hsv
      \* hsvV = hsvV * value
      valued(hsv) == [hsv EXCEPT ![3] = RMul(@, p.value)]
      clamped(hsv) == [hsv EXCEPT ![2] = Clamp01(@), ![3] = Clamp01(@)]
  IN  clamped(valued(vibrant(saturated(shifted(rgbToHsv(c[1], c[2], c[3]))))))

\* lines 176-202: the HSV block, converted back to RGB
hsvStage(c, p) ==
  LET toRgb(hsv) == hsvToRgb(hsv[1], hsv[2], hsv[3])
  IN  toRgb(hsvAdjust(c, p))

\* 0.299 * red + 0.587 * green + 0.114 * blue  (lines 206 and 228)
luminanceOf(c) ==
  RAdd(RMul(<<299, 1000>>, c[1]),
       RAdd(RMul(<<587, 1000>>, c[2]), RMul(<<114, 1000>>, c[3])))

\* lines 205-211
crossProcessStage(c, p) ==
  IF p.crossProcess # Zero
  THEN LET crossed(luminance) ==
             <<RAdd(c[1], RMul(RMul(p.crossProcess, RSub(luminance, Half)), <<3, 10>>)),
               RAdd(c[2], RMul(p.crossProcess,
                               RSub(<<3, 10>>, RMul(luminance, <<1, 5>>)))),
               RAdd(c[3], RMul(RMul(p.crossProcess, RSub(Half, luminance)), <<3, 10>>))>>
       IN  crossed(luminanceOf(c))
  ELSE c

\* lines 215-225: the RGB shift of one colour wheel
wheelShift(offset, strength) ==
  <<RMul(RMul(offset.x, <<3, 10>>), strength),
    RMul(RMul(offset.y, <<3, 10>>), strength),
    RMul(RMul(RNeg(RAdd(offset.x, offset.y)), <<3, 20>>), strength)>>

\* the single luminance the split-tone weights are computed from (line 228)
splitLuminance(c) == luminanceOf(c)

\* lines 231, 237, 243
liftWeightOf(luminance)  == RMul(RSub(One, luminance), RSub(One, luminance))
gammaWeightOf(luminance) == sinPi(luminance)
gainWeightOf(luminance)  == RMul(luminance, luminance)

\* lines 215-246
splitToneStage(c, p) ==
  LET toned(lift, gamma, gain, liftWeight, gammaWeight, gainWeight) ==
        [k \in 1..3 |->
           RAdd(RAdd(RAdd(c[k], RMul(lift[k], liftWeight)),
                     RMul(gamma[k], gammaWeight)),
                RMul(gain[k], gainWeight))]
      weighted(luminance) ==
        toned(wheelShift(p.lift, p.liftStrength),
              wheelShift(p.gamma, p.gammaStrength),
              wheelShift(p.gain, p.gainStrength),
              liftWeightOf(luminance), gammaWeightOf(luminance),
              gainWeightOf(luminance))
  IN  weighted(splitLuminance(c))

\* lines 254-256
curvesStage(c, p) ==
  <<interpolateCurve(c[1], p.redCurve),
    interpolateCurve(c[2], p.greenCurve),
    interpolateCurve(c[3], p.blueCurve)>>

\* lines 259-261
correctionsStage(c, p) ==
  IF Len(p.colorCorrections) > 0
  THEN applyColorCorrections(c[1], c[2], c[3], p.colorCorrections)
  ELSE c

\* the corrections applied before the curves
CorrectionsBeforeCurves ==
  <<"exposure", "brightness", "contrast", "clamp1", "hsv", "crossProcess",
    "splitTone", "clamp2", "corrections", "curves", "clamp3">>

\* The stages of the loop body in source order; stage k consumes the result
\* of stage k-1 (lines 155-266)
StageNames ==
  <<"exposure", "brightness", "contrast", "clamp1", "hsv", "crossProcess",
    "splitTone", "clamp2", "curves", "corrections", "clamp3">>

runStage(name, c, p) ==
  CASE name = "exposure"     -> applyExposure(c, p)
    [] name = "brightness"   -> applyBrightness(c, p)
    [] name = "contrast"     -> applyContrast(c, p)
    [] name = "clamp1"       -> clampColor(c)
    [] name = "hsv"          -> hsvStage(c, p)
    [] name = "crossProcess" -> crossProcessStage(c, p)
    [] name = "splitTone"    -> splitToneStage(c, p)
    [] name = "clamp2"       -> clampColor(c)
    [] name = "curves"       -> curvesStage(c, p)
    [] name = "corrections"  -> correctionsStage(c, p)
    [] name = "clamp3"       -> clampColor(c)

\* seen holds red, green, blue as they stood after normalisation and after
\* each block so far
RECURSIVE stagesFrom(_, _)
stagesFrom(seen, p) ==
  LET k == Len(seen)
  IN  IF k > Len(StageNames)
      THEN seen[k]
      ELSE stagesFrom(Append(seen, runStage(StageNames[k], seen[k], p)), p)

\* lines 149-266: the colour computed for cell (r, g, b)
gradeCell(r, g, b, p) == stagesFrom(<<normalizeCell(r, g, b)>>, p)

\* A store into Uint8ClampedArray (ImageData.data): clamp to 0..255 and round
\* to the nearest integer, ties to even
toUint8Clamp(x) ==
  LET nearest(fl, frac) ==
        IF RLt(frac, Half) THEN fl
        ELSE IF RGt(frac, Half) THEN fl + 1
        ELSE IF fl % 2 = 0 THEN fl ELSE fl + 1
      between(fl) == nearest(fl, RSub(x, <<fl, 1>>))
  IN  IF RLe(x, Zero) THEN 0
      ELSE IF RGe(x, <<255, 1>>) THEN 255
      ELSE between(RFloor(x))

\* lines 145-147: position of cell (r, g, b) in the flat RGBA buffer
lutWidth  == cubeSize * cubeSize
lutHeight == cubeSize
\* red and green exchanged: red as the row, green as the column in the slice
cellIndexRedRows(r, g, b) ==
  LET x == b * cubeSize + g
      y == r
  IN  (y * lutWidth + x) * 4
\* the slice left out of the column: every slice stored over slice 0
cellIndexOneSlice(r, g, b) ==
  LET x == r
      y == g
  IN  (y * lutWidth + x) * 4
cellIndex(r, g, b) ==
  LET x == b * cubeSize + r
      y == g
  IN  (y * lutWidth + x) * 4

\* lines 269-272: the four bytes stored for a cell
cellBytes(r, g, b, p) ==
  LET stored(c) ==
        <<toUint8Clamp(RMul(c[1], <<255, 1>>)),
          toUint8Clamp(RMul(c[2], <<255, 1>>)),
          toUint8Clamp(RMul(c[3], <<255, 1>>)),
          255>>
  IN  stored(gradeCell(r, g, b, p))


(***************************************************************************)
(* State                                                                   *)
(***************************************************************************)
VARIABLES
  \* interpolateCurve called on one curve with successive inputs
  curve, input, output, prevInput, prevOutput, calls,
  \* applyColorCorrections: arguments, loop locals (red, green, blue as acc,
  \* loop index ci), result, the strengths matchesColorRange returned, and the
  \* output swatches the panel and the popover compute on render
  color, corrections, pcCorr, ci, acc, corrOut, strengths,
  swatchPanel, swatchPopover,
  \* one cell of generateLUT followed stage by stage
  gCell, gParams, gPc, gHist,
  \* generateLUT: parameters, position, the cells stored at each pixel of the
  \* ImageData buffer in the order the loops stored them, the returned image
  lutParams, bakePc, writes, lutDataURL,
  \* applyLUTToImage: source image, loop index, pixel buffer, result
  sourceImg, applyPc, ai, sourceData, graded,
  \* interpolateCurve evaluated at the x of a control point of a curve
  pCurve, pIndex, pValue,
  \* the cells of generateLUT computed by two workers: parameters, how the
  \* cells are divided, the units each worker has finished, the shared
  \* buffer, and the bytes lines 149-272 compute for every cell
  wParams, wKind, wDone, wData, wColours,
  \* a colour taken through rgbToHsv and back through hsvToRgb
  rtColor, rtHsv, rtBack, rtPc,
  \* the curve editor: the points prop, the component state, the last curve
  \* passed to onChange with the number of calls, the mouse button, and the
  \* number of events delivered
  points, draggedIndex, draggedMidpointIndex, changed, pressed, events,
  \* the colour wheel: the offset prop, the component state, the last offset
  \* passed to onChange with the number of calls, the events delivered
  wheelOffset, isDragging, wheelChanged, wheelEvents,
  \* the HSV block of generateLUT on one colour: the colour, the parameters,
  \* hsvH, hsvS, hsvV after the block, the same with vibrancy 0
  vColor, vParams, vHsv, vPlain, vPc,
  \* matchesColorRange's distance: colour, target, the square of the distance
  dColor, dTarget, dSq, dPc,
  \* App: its state, the state the last update replaced by a new object, the
  \* id a colour is picked for, the memo, the LUT in use
  app, replaced, pickingColorForId, memo, lutBase64, edits,
  \* the last reading of Date.now()
  now,
  \* the image-preview App: a parameter, the LUT of the last render, the started applications, the displayed image
  pvExposure, pvLut, pvApplications, processedImage, pvChanges,
  \* the Map component: its map ref, the instances it has created, its props, the eyedropper's grid and the colours reported
  mapCurrent, mapInstances, mapMounted, mapLut, isPickingColor, pixelGridRef, sessionGrid, pickerReports, mapEvents,
  \* the promise of applyLUTToImage: the calls of resolve and reject, the two image loads and the two canvas contexts
  settlements, sourceState, lutState, lutCtx, sourceCtx

curveVars == <<curve, input, output, prevInput, prevOutput, calls>>
corrVars  == <<color, corrections, pcCorr, ci, acc, corrOut, strengths,
               swatchPanel, swatchPopover>>
gradeVars == <<gCell, gParams, gPc, gHist>>
bakeVars  == <<lutParams, bakePc, writes, lutDataURL>>
applyVars == <<sourceImg, applyPc, ai, sourceData, graded>>
pointVars == <<pCurve, pIndex, pValue>>
workerVars == <<wParams, wKind, wDone, wData, wColours>>
roundVars == <<rtColor, rtHsv, rtBack, rtPc>>
editorVars == <<points, draggedIndex, draggedMidpointIndex, changed, pressed,
                events>>
wheelVars == <<wheelOffset, isDragging, wheelChanged, wheelEvents>>
vibrancyVars == <<vColor, vParams, vHsv, vPlain, vPc>>
distanceVars == <<dColor, dTarget, dSq, dPc>>
appVars == <<app, replaced, pickingColorForId, memo, lutBase64, edits, now>>
previewVars == <<pvExposure, pvLut, pvApplications, processedImage, pvChanges>>
mapVars == <<mapCurrent, mapInstances, mapMounted, mapLut, isPickingColor, pixelGridRef, sessionGrid, pickerReports, mapEvents>>
promiseVars == <<settlements, sourceState, lutState, lutCtx, sourceCtx>>
moreVars  == <<pointVars, workerVars, roundVars, editorVars, wheelVars,
               vibrancyVars, distanceVars, appVars, previewVars, mapVars,
               promiseVars>>
vars == <<curveVars, corrVars, gradeVars, bakeVars, applyVars, moreVars>>

(***************************************************************************)
(* Input values                                                            *)
(***************************************************************************)
Pt(x, y) == [x |-> x, y |-> y]

\* the two-point identity curve and the editor's default (App.tsx 298-318)
LinearCurve  == <<Pt(Zero, Zero), Pt(One, One)>>
DefaultCurve == <<Pt(Zero, Zero), Pt(Q(1, 4), Q(1, 4)), Pt(Half, Half),
                  Pt(Q(3, 4), Q(3, 4)), Pt(One, One)>>
IdentityCurves == {LinearCurve, DefaultCurve}

NoOffset == [x |-> Zero, y |-> Zero]

\* App.tsx 280-295: the state App starts with
IdentityParams ==
  [exposure |-> 0, brightness |-> One, contrast |-> One, hue |-> Zero,
   saturation |-> One, value |-> One, vibrancy |-> Zero, crossProcess |-> Zero,
   redCurve |-> DefaultCurve, greenCurve |-> DefaultCurve, blueCurve |-> DefaultCurve,
   lift |-> NoOffset, liftStrength |-> One,
   gamma |-> NoOffset, gammaStrength |-> One,
   gain |-> NoOffset, gainStrength |-> One,
   colorCorrections |-> <<>>]

NoAdjust == [hueShift |-> Zero, saturationShift |-> Zero, valueShift |-> Zero,
             brightnessShift |-> Zero]

Correction(id, enabled, target, tolerance, adj) ==
  [id |-> id, enabled |-> enabled, targetColor |-> target,
   tolerance |-> tolerance, adjustments |-> adj]

\* ColorCorrectionPanel.tsx 18-29: the correction addCorrection creates
NewCorrection(id) ==
  Correction(id, TRUE, <<Half, Half, Half>>, Q(3, 10), NoAdjust)

Red   == <<One, Zero, Zero>>
Cyan  == <<Zero, One, One>>
Grey  == <<Half, Half, Half>>
Black == <<Zero, Zero, Zero>>
White == <<One, One, One>>


(***************************************************************************)
(* Values of the variables a specification does not use                    *)
(***************************************************************************)
IdleCurve ==
  /\ curve = LinearCurve /\ input = Zero /\ output = Zero
  /\ prevInput = Zero /\ prevOutput = Zero /\ calls = 0

IdleCorr ==
  /\ color = Black /\ corrections = <<>> /\ pcCorr = "idle" /\ ci = 0
  /\ acc = Black /\ corrOut = Black /\ strengths = <<>>
  /\ swatchPanel = <<>> /\ swatchPopover = <<>>

IdleGrade ==
  /\ gCell = <<0, 0, 0>> /\ gParams = IdentityParams /\ gPc = -1 /\ gHist = <<>>

IdleBake ==
  /\ lutParams = IdentityParams /\ bakePc = "idle" /\ writes = <<>>
  /\ lutDataURL = ""

IdleApply ==
  /\ sourceImg = [width |-> 0, height |-> 0, data |-> <<>>]
  /\ applyPc = "idle" /\ ai = 0 /\ sourceData = <<>> /\ graded = ""

IdlePoint ==
  /\ pCurve = <<>> /\ pIndex = 0 /\ pValue = <<0, 1>>

IdleWorkers ==
  /\ wParams = IdentityParams /\ wKind = "" /\ wDone = <<0, 0>> /\ wData = <<>>
  /\ wColours = <<>>

IdleRound ==
  /\ rtColor = <<>> /\ rtHsv = <<>> /\ rtBack = <<>> /\ rtPc = "idle"

IdleEditor ==
  /\ points = <<>> /\ draggedIndex = -1 /\ draggedMidpointIndex = -1
  /\ changed = [curve |-> <<>>, calls |-> 0] /\ pressed = FALSE /\ events = 0

IdleWheel ==
  /\ wheelOffset = <<>> /\ isDragging = FALSE
  /\ wheelChanged = [offset |-> <<>>, calls |-> 0] /\ wheelEvents = 0

IdleVibrancy ==
  /\ vColor = <<>> /\ vParams = <<>> /\ vHsv = <<>> /\ vPlain = <<>>
  /\ vPc = "idle"

IdleDistance ==
  /\ dColor = <<>> /\ dTarget = <<>> /\ dSq = <<0, 1>> /\ dPc = "idle"

IdleApp ==
  app = <<>> /\ replaced = {} /\ pickingColorForId = <<>> /\ memo = <<>> /\ lutBase64 = <<>> /\ edits = 0
  /\ now = 0

IdlePreview ==
  pvExposure = 0 /\ pvLut = [lut |-> 0] /\ pvApplications = <<>> /\ processedImage = "" /\ pvChanges = 0

IdleMap ==
  mapCurrent = 0 /\ mapInstances = <<>> /\ mapMounted = FALSE /\ mapLut = 0 /\ isPickingColor = FALSE /\ pixelGridRef = <<>> /\ sessionGrid = <<>> /\ pickerReports = <<>> /\ mapEvents = 0

IdlePromise ==
  settlements = <<>> /\ sourceState = "unset" /\ lutState = "unset" /\ lutCtx = "unasked" /\ sourceCtx = "unasked"

\* the specifications that follow SpecLUT leave each other's variables idle
IdleLater(own) ==
  /\ ("point" = own \/ IdlePoint)
  /\ ("workers" = own \/ IdleWorkers)
  /\ ("round" = own \/ IdleRound)
  /\ ("editor" = own \/ IdleEditor)
  /\ ("wheel" = own \/ IdleWheel)
  /\ ("vibrancy" = own \/ IdleVibrancy)
  /\ ("distance" = own \/ IdleDistance)
  /\ ("app" = own \/ IdleApp)
  /\ ("preview" = own \/ IdlePreview)
  /\ ("map" = own \/ IdleMap)
  /\ ("promise" = own \/ IdlePromise)

IdleMore == IdleLater("")

coreVars == <<curveVars, corrVars, gradeVars, bakeVars, applyVars>>
\* every variable but those of one of the later specifications
notPoint == <<coreVars, workerVars, roundVars, editorVars, wheelVars,
  vibrancyVars, distanceVars, appVars, previewVars, mapVars, promiseVars>>
notWorkers == <<coreVars, pointVars, roundVars, editorVars, wheelVars,
  vibrancyVars, distanceVars, appVars, previewVars, mapVars, promiseVars>>
notRound == <<coreVars, pointVars, workerVars, editorVars, wheelVars,
  vibrancyVars, distanceVars, appVars, previewVars, mapVars, promiseVars>>
notEditor == <<coreVars, pointVars, workerVars, roundVars, wheelVars,
  vibrancyVars, distanceVars, appVars, previewVars, mapVars, promiseVars>>
notWheel == <<coreVars, pointVars, workerVars, roundVars, editorVars,
  vibrancyVars, distanceVars, appVars, previewVars, mapVars, promiseVars>>
notVibrancy == <<coreVars, pointVars, workerVars, roundVars, editorVars,
  wheelVars, distanceVars, appVars, previewVars, mapVars, promiseVars>>
notDistance == <<coreVars, pointVars, workerVars, roundVars, editorVars,
  wheelVars, vibrancyVars, appVars, previewVars, mapVars, promiseVars>>
notApp == <<coreVars, pointVars, workerVars, roundVars, editorVars,
  wheelVars, vibrancyVars, distanceVars, previewVars, mapVars, promiseVars>>
notPreview == <<coreVars, pointVars, workerVars, roundVars, editorVars,
  wheelVars, vibrancyVars, distanceVars, appVars, mapVars, promiseVars>>
notMap == <<coreVars, pointVars, workerVars, roundVars, editorVars,
  wheelVars, vibrancyVars, distanceVars, appVars, previewVars, promiseVars>>
notPromise == <<coreVars, pointVars, workerVars, roundVars, editorVars,
  wheelVars, vibrancyVars, distanceVars, appVars, previewVars, mapVars>>

IdleCore == IdleCurve /\ IdleCorr /\ IdleGrade /\ IdleBake /\ IdleApply

(***************************************************************************)
(* SpecCurve: interpolateCurve evaluated on a curve, input after input     *)
(***************************************************************************)
MaxCurveLen == 3
CurveGrid   == 4
MaxCalls    == 2

GridX == {Q(k, CurveGrid) : k \in 0..CurveGrid}
GridY == {Zero, Half, One}
CurvePoints == {Pt(x, y) : x \in GridX, y \in GridY}

\* curves with strictly increasing x; the first x may be above 0 and the
\* last below 1 (interpolateCurve does not check either)
IncreasingX(c) == \A i \in 1..(Len(c) - 1) : RLt(c[i].x, c[i + 1].x)
CurveSet ==
  UNION {{c \in [1..n -> CurvePoints] : IncreasingX(c)} : n \in 2..MaxCurveLen}

\* inputs between the grid points, on them, and outside [0, 1]
InputSet == {Q(k, 2 * CurveGrid) : k \in 0..(2 * CurveGrid)} \cup {Q(-1, 4), Q(5, 4)}

InitCurve ==
  /\ curve \in CurveSet
  /\ input = Zero /\ output = Zero /\ prevInput = Zero /\ prevOutput = Zero
  /\ calls = 0
  /\ IdleCorr /\ IdleGrade /\ IdleBake /\ IdleApply /\ IdleMore

\* a call interpolateCurve(x, curve); the previous call is remembered
Interpolate(x) ==
  /\ calls < MaxCalls
  /\ prevInput' = input
  /\ prevOutput' = output
  /\ input' = x
  /\ output' = interpolateCurve(x, curve)
  /\ calls' = calls + 1
  /\ UNCHANGED <<curve, corrVars, gradeVars, bakeVars, applyVars, moreVars>>

NextCurve == \E x \in InputSet : Interpolate(x)

SpecCurve == InitCurve /\ [][NextCurve]_vars

NonDecreasingY(c) == \A i \in 1..(Len(c) - 1) : RLe(c[i].y, c[i + 1].y)
FirstX(c) == c[1].x
LastX(c)  == c[Len(c)].x
\* the input as interpolateCurve sees it after its own clamp to [0, 1]
Seen(x) == Clamp01(x)

\* C9: interpolateCurve clamps the input to the range the curve covers: an
\* input below the first point's x yields the first point's y, an input above
\* the last point's x yields the last point's y.
C9_ClampsToCoveredRange ==
  calls >= 1 =>
    /\ (RLt(Seen(input), FirstX(curve)) => output = curve[1].y)
    /\ (RGt(Seen(input), LastX(curve)) => output = curve[Len(curve)].y)

\* C10: on a curve with at least 2 points, strictly increasing x and
\* non-decreasing y, interpolateCurve is non-decreasing over [0, 1]:
\* a <= b implies interpolateCurve(a) <= interpolateCurve(b).
C10_Monotone ==
  (/\ calls >= 2
   /\ Len(curve) >= 2 /\ IncreasingX(curve) /\ NonDecreasingY(curve)
   /\ In01(prevInput) /\ In01(input)
   /\ RLe(prevInput, input))
  => RLe(prevOutput, output)


(***************************************************************************)
(* SpecCorr: applyColorCorrections run on a colour and a list of           *)
(* corrections, one loop iteration per step, then the panel and the        *)
(* popover render the output swatch of every correction                    *)
(***************************************************************************)
MaxCorrections == 3

Adjust(h, s, v, br) ==
  [hueShift |-> h, saturationShift |-> s, valueShift |-> v, brightnessShift |-> br]

CorrectionSet ==
  { Correction(1, TRUE,  Red,  Q(3, 10), Adjust(<<180, 1>>, Zero, Zero, Zero)),
    Correction(2, TRUE,  Cyan, Half,     Adjust(Zero, Q(-1, 2), Q(-1, 2), Zero)),
    Correction(3, TRUE,  Grey, One,      Adjust(<<-90, 1>>, Half, Q(-1, 4), Q(-1, 2))),
    Correction(4, FALSE, Red,  Q(3, 10), Adjust(<<180, 1>>, Zero, Zero, Zero)),
    Correction(5, FALSE, Grey, One,      Adjust(<<-90, 1>>, Half, Q(-1, 4), Q(-1, 2))),
    NewCorrection(6) }

ColorSet ==
  { Red, Cyan, Grey, Black, White,
    <<One, Half, Zero>>, <<Half, Zero, Zero>>, <<Zero, Half, One>>,
    <<Q(3, 4), Q(1, 4), Q(1, 4)>>, <<One, Zero, Q(1, 4)>> }

\* lists of corrections with pairwise different ids
DistinctIds(cs) == \A i, j \in 1..Len(cs) : i # j => cs[i].id # cs[j].id
CorrectionLists ==
  UNION {{cs \in [1..n -> CorrectionSet] : DistinctIds(cs)} : n \in 0..MaxCorrections}

InitCorr ==
  /\ color \in ColorSet
  /\ corrections \in CorrectionLists
  /\ pcCorr = "call" /\ ci = 0 /\ acc = Black /\ corrOut = Black
  /\ strengths = <<>> /\ swatchPanel = <<>> /\ swatchPopover = <<>>
  /\ IdleCurve /\ IdleGrade /\ IdleBake /\ IdleApply /\ IdleMore

\* lines 75-77: red, green, blue start as the arguments
CallApply ==
  /\ pcCorr = "call"
  /\ acc' = color
  /\ ci' = 1
  /\ pcCorr' = "loop"
  /\ UNCHANGED <<color, corrections, corrOut, strengths, swatchPanel, swatchPopover>>
  /\ UNCHANGED <<curveVars, gradeVars, bakeVars, applyVars, moreVars>>

\* lines 79-119: one iteration; strengths logs what matchesColorRange
\* returned for an enabled correction, with the colour before and after
LoopCorrection ==
  /\ pcCorr = "loop"
  /\ ci <= Len(corrections)
  /\ acc' = correctionBody(acc[1], acc[2], acc[3], corrections[ci])
  /\ strengths' =
       IF corrections[ci].enabled
       THEN Append(strengths,
                   [index |-> ci, from |-> acc,
                    strength |-> correctionStrength(acc[1], acc[2], acc[3],
                                                    corrections[ci]),
                    to |-> acc'])
       ELSE strengths
  /\ ci' = ci + 1
  /\ UNCHANGED <<color, corrections, pcCorr, corrOut, swatchPanel, swatchPopover>>
  /\ UNCHANGED <<curveVars, gradeVars, bakeVars, applyVars, moreVars>>

\* line 121
ReturnCorrected ==
  /\ pcCorr = "loop"
  /\ ci > Len(corrections)
  /\ corrOut' = acc
  /\ pcCorr' = "done"
  /\ UNCHANGED <<color, corrections, ci, acc, strengths, swatchPanel, swatchPopover>>
  /\ UNCHANGED <<curveVars, gradeVars, bakeVars, applyVars, moreVars>>

\* ColorCorrectionPanel.tsx 93-94 and ColorCorrectionPopover line 297: every
\* correction's output swatch is computed on render
RenderSwatches ==
  /\ pcCorr = "done"
  /\ swatchPanel' = [i \in 1..Len(corrections) |-> calculateOutputColor(corrections[i])]
  /\ swatchPopover' =
       [i \in 1..Len(corrections) |-> popoverCalculateOutputColor(corrections[i])]
  /\ pcCorr' = "rendered"
  /\ UNCHANGED <<color, corrections, ci, acc, corrOut, strengths>>
  /\ UNCHANGED <<curveVars, gradeVars, bakeVars, applyVars, moreVars>>

NextCorr == CallApply \/ LoopCorrection \/ ReturnCorrected \/ RenderSwatches

SpecCorr == InitCorr /\ [][NextCorr]_vars

Returned == pcCorr \in {"done", "rendered"}


\* one correction applied to colour c as the claim words it: a disabled
\* correction leaves c unchanged; an enabled one takes its match strength
\* from c and, when the strength is positive, adjusts c at that strength
SingleCorrection(c, k) ==
  LET s == matchesColorRange(c[1], c[2], c[3], k.targetColor[1],
                             k.targetColor[2], k.targetColor[3], k.tolerance)
  IN  IF k.enabled /\ RGt(s, Zero)
      THEN adjustColor(c[1], c[2], c[3], k, s)
      ELSE c

RECURSIVE OneAtATime(_, _)
OneAtATime(c, cs) ==
  IF cs = <<>> THEN c ELSE OneAtATime(SingleCorrection(c, Head(cs)), Tail(cs))

IsEnabled(k) == k.enabled
EnabledOnly(cs) == SelectSeq(cs, IsEnabled)

\* C5: applyColorCorrections over a list equals applying the corrections one
\* at a time in list order, each on the output of the previous one, and
\* equals the result for the same list with the disabled entries removed.
C5_AppliedInListOrder ==
  Returned =>
    /\ corrOut = OneAtATime(color, corrections)
    /\ corrOut = applyColorCorrections(color[1], color[2], color[3],
                                       EnabledOnly(corrections))

\* a list with a disabled entry in which a later correction matched the
\* output of an earlier one with another strength than it has on the
\* original colour, and changed it
C5_Witness ==
  /\ Returned
  /\ \E i \in 1..Len(corrections) : ~corrections[i].enabled
  /\ \E j \in 1..Len(strengths) :
       /\ strengths[j].index > 1
       /\ strengths[j].from # color
       /\ strengths[j].strength #
            correctionStrength(color[1], color[2], color[3],
                               corrections[strengths[j].index])
       /\ strengths[j].to # strengths[j].from

\* the normalised HSV distance between colour c and the target of k exceeds
\* the tolerance of k
OutOfRange(c, k) ==
  RGt(hsvDistanceSq(c[1], c[2], c[3], k.targetColor[1], k.targetColor[2],
                    k.targetColor[3]),
      RMul(k.tolerance, k.tolerance))

HasShift(k) == k.adjustments # NoAdjust

\* C6: when the distance between the colour and the target exceeds the
\* tolerance, matchesColorRange returns exactly 0 and the correction leaves
\* the colour unchanged, whatever its shifts are.
C6_OutOfRangeIsIdentity ==
  /\ \A j \in 1..Len(strengths) :
       OutOfRange(strengths[j].from, corrections[strengths[j].index]) =>
         /\ strengths[j].strength = Zero
         /\ strengths[j].to = strengths[j].from
  /\ (/\ Returned /\ Len(corrections) = 1 /\ corrections[1].enabled
      /\ OutOfRange(color, corrections[1]))
     => corrOut = color

C6_Witness ==
  /\ Returned /\ Len(corrections) = 1 /\ corrections[1].enabled
  /\ HasShift(corrections[1])
  /\ OutOfRange(color, corrections[1])
  /\ Len(strengths) = 1 /\ strengths[1].strength = Zero

\* C7: a colour equal to the target is matched at full strength:
\* matchesColorRange(c, c, tolerance) = 1 for every tolerance.
C7_TargetMatchesFully ==
  \A j \in 1..Len(strengths) :
    strengths[j].from = corrections[strengths[j].index].targetColor =>
      strengths[j].strength = One

C7_Witness ==
  \E j \in 1..Len(strengths) :
    /\ strengths[j].from = corrections[strengths[j].index].targetColor
    /\ corrections[strengths[j].index].tolerance = Q(3, 10)
    /\ strengths[j].strength = One

SingleOnTarget ==
  /\ pcCorr = "rendered"
  /\ Len(corrections) = 1 /\ corrections[1].enabled
  /\ color = corrections[1].targetColor

\* C8: a single enabled correction applied to its own target colour returns
\* the colour both output swatches show (the full-strength adjustment of the
\* target); target red, tolerance 0.3, hue shift 180 gives cyan.
C8_TargetGetsSwatchColor ==
  SingleOnTarget =>
    /\ corrOut = swatchPanel[1]
    /\ corrOut = swatchPopover[1]
    /\ (/\ color = Red /\ corrections[1].tolerance = Q(3, 10)
        /\ corrections[1].adjustments = Adjust(<<180, 1>>, Zero, Zero, Zero))
       => corrOut = Cyan

C8_Witness ==
  /\ SingleOnTarget
  /\ color = Red /\ corrections[1].tolerance = Q(3, 10)
  /\ corrections[1].adjustments = Adjust(<<180, 1>>, Zero, Zero, Zero)
  /\ corrOut = Cyan /\ swatchPanel[1] = Cyan


(***************************************************************************)
(* SpecGrade: the body of generateLUT's loop for one cell, stage by stage  *)
(***************************************************************************)
InvertedCurve == <<Pt(Zero, One), Pt(One, Zero)>>
ContrastCurve == <<Pt(Zero, Zero), Pt(Q(1, 4), Q(1, 8)), Pt(Q(3, 4), Q(7, 8)),
                   Pt(One, One)>>

Offset(x, y) == [x |-> x, y |-> y]

GradedParams ==
  [IdentityParams EXCEPT
     !.exposure = 1, !.brightness = Q(3, 4), !.contrast = Q(3, 2),
     !.hue = <<-30, 1>>, !.saturation = Q(3, 2), !.value = Q(9, 10),
     !.vibrancy = Q(1, 5), !.crossProcess = Half,
     !.redCurve = ContrastCurve, !.greenCurve = InvertedCurve,
     !.lift = Offset(Half, Q(-1, 2)), !.gamma = Offset(Q(1, 4), Zero),
     !.gain = Offset(<<-1, 1>>, One),
     !.colorCorrections =
        <<Correction(1, TRUE, Red, Q(3, 10), Adjust(<<180, 1>>, Zero, Zero, Zero)),
          Correction(3, TRUE, Grey, One, Adjust(<<-90, 1>>, Half, Q(-1, 4), Q(-1, 2)))>>]

GradeParamSet ==
  { IdentityParams,
    [IdentityParams EXCEPT !.exposure = 1],
    [IdentityParams EXCEPT !.exposure = -1, !.brightness = Q(3, 2), !.contrast = <<2, 1>>],
    [IdentityParams EXCEPT !.contrast = <<-1, 1>>],
    [IdentityParams EXCEPT !.hue = <<120, 1>>, !.saturation = Half, !.value = Half],
    [IdentityParams EXCEPT !.saturation = Q(3, 2), !.vibrancy = Half],
    [IdentityParams EXCEPT !.crossProcess = One],
    [IdentityParams EXCEPT !.lift = Offset(Half, Q(-1, 2)),
                           !.gamma = Offset(One, Zero), !.gain = Offset(<<-1, 1>>, One)],
    [IdentityParams EXCEPT !.redCurve = InvertedCurve, !.greenCurve = ContrastCurve,
                           !.blueCurve = LinearCurve],
    [IdentityParams EXCEPT !.redCurve = InvertedCurve,
        !.colorCorrections =
           <<Correction(1, TRUE, Red, Q(3, 10), Adjust(<<180, 1>>, Zero, Zero, Zero)),
             Correction(2, TRUE, Cyan, Half, Adjust(Zero, Q(-1, 2), Q(-1, 2), Zero))>>],
    GradedParams }

GradeAxis == {0, 3, 8, 12, 15}
GradeCells == {<<r, g, b>> : r \in GradeAxis, g \in GradeAxis, b \in GradeAxis}

Last(sq) == sq[Len(sq)]

InitGrade ==
  /\ gCell \in GradeCells
  /\ gParams \in GradeParamSet
  /\ gPc = 0
  /\ gHist = <<>>
  /\ IdleCurve /\ IdleCorr /\ IdleBake /\ IdleApply /\ IdleMore

\* lines 150-152
GradeNormalize ==
  /\ gPc = 0 /\ gHist = <<>>
  /\ gHist' = <<normalizeCell(gCell[1], gCell[2], gCell[3])>>
  /\ UNCHANGED <<gCell, gParams, gPc>>
  /\ UNCHANGED <<curveVars, corrVars, bakeVars, applyVars, moreVars>>

\* the next block of lines 155-266; gHist keeps red, green, blue as they
\* stand after every block
GradeStage ==
  /\ gHist # <<>>
  /\ gPc >= 0 /\ gPc < Len(StageNames)
  /\ gHist' = Append(gHist, runStage(StageNames[gPc + 1], Last(gHist), gParams))
  /\ gPc' = gPc + 1
  /\ UNCHANGED <<gCell, gParams>>
  /\ UNCHANGED <<curveVars, corrVars, bakeVars, applyVars, moreVars>>

NextGrade == GradeNormalize \/ GradeStage

SpecGrade == InitGrade /\ [][NextGrade]_vars

Scale(c, f) == <<RMul(c[1], f), RMul(c[2], f), RMul(c[3], f)>>
AboutHalf(x, k) == RAdd(RMul(RSub(x, Half), k), Half)

\* the k-th stage of the claimed composition applied to prev, the result of
\* stage k-1; stage 0 is the cell's normalised coordinate
ClaimedStage(k, prev, cell, p) ==
      CASE k = 0  -> <<Q(cell[1], 15), Q(cell[2], 15), Q(cell[3], 15)>>
        [] k = 1  -> Scale(prev, pow2(p.exposure))
        [] k = 2  -> Scale(prev, p.brightness)
        [] k = 3  -> <<AboutHalf(prev[1], p.contrast), AboutHalf(prev[2], p.contrast),
                       AboutHalf(prev[3], p.contrast)>>
        [] k = 4  -> <<Clamp01(prev[1]), Clamp01(prev[2]), Clamp01(prev[3])>>
        [] k = 5  -> hsvStage(prev, p)
        [] k = 6  -> crossProcessStage(prev, p)
        [] k = 7  -> splitToneStage(prev, p)
        [] k = 8  -> <<Clamp01(prev[1]), Clamp01(prev[2]), Clamp01(prev[3])>>
        [] k = 9  -> <<interpolateCurve(prev[1], p.redCurve),
                       interpolateCurve(prev[2], p.greenCurve),
                       interpolateCurve(prev[3], p.blueCurve)>>
        [] k = 10 -> applyColorCorrections(prev[1], prev[2], prev[3], p.colorCorrections)
        [] k = 11 -> <<Clamp01(prev[1]), Clamp01(prev[2]), Clamp01(prev[3])>>

\* C4: the colour generateLUT computes for a cell is the composition, in this
\* order, of exposure, brightness, contrast, clamp, HSV stage, cross-process,
\* split-tone, clamp, curves, corrections, final clamp: after k blocks the
\* colour is the k-th stage of that composition, so the curves receive the
\* clamped post-split-tone value and the corrections the post-curve value.
C4_StageOrder ==
  /\ \A k \in 1..Len(gHist) :
       gHist[k] = ClaimedStage(k - 1, IF k = 1 THEN gCell ELSE gHist[k - 1],
                               gCell, gParams)
  /\ (gPc = Len(StageNames) /\ gHist # <<>>) =>
       Last(gHist) = gradeCell(gCell[1], gCell[2], gCell[3], gParams)

\* a finished cell for which the order of curves and corrections matters
C4_Witness ==
  /\ gPc = 11 /\ Len(gHist) = 12
  /\ Len(gParams.colorCorrections) > 0
  /\ gHist[10] # gHist[9]
  /\ gHist[11] # gHist[10]
  /\ gHist[12] #
       clampColor(curvesStage(correctionsStage(gHist[9], gParams), gParams))


(***************************************************************************)
(* SpecLUT: generateLUT fills the ImageData buffer cell by cell and        *)
(* returns it as an image; applyLUTToImage then maps a source image        *)
(* through that image pixel by pixel                                       *)
(***************************************************************************)
MaxPixels == 2

bufferLength == lutWidth * lutHeight * 4

\* line 137: createImageData gives transparent black
ZeroData == [i \in 0..(bufferLength - 1) |-> 0]

\* a grade whose LUT is not the identity
TintedParams ==
  [IdentityParams EXCEPT
     !.exposure = 1, !.contrast = Q(3, 2), !.hue = <<120, 1>>,
     !.saturation = Half, !.redCurve = InvertedCurve,
     !.colorCorrections =
        <<Correction(1, TRUE, Red, Q(3, 10), Adjust(<<180, 1>>, Zero, Zero, Zero))>>]

LutParamSet ==
  {[IdentityParams EXCEPT !.redCurve = rc, !.greenCurve = gc, !.blueCurve = bc] :
      rc \in IdentityCurves, gc \in IdentityCurves, bc \in IdentityCurves}
  \cup {TintedParams}

\* RGBA pixels of source images
PixelSet == {<<0, 0, 0, 255>>, <<255, 255, 255, 0>>, <<8, 9, 128, 77>>,
             <<200, 17, 119, 255>>}

\* an image of the given size whose pixels, row by row, are px
ImageOf(w, h, px) ==
  [width |-> w, height |-> h,
   data |-> [i \in 0..(4 * w * h - 1) |-> px[(i \div 4) + 1][(i % 4) + 1]]]

ImageSet ==
  UNION {{ImageOf(w, n \div w, px) : px \in [1..n -> PixelSet]} :
           <<n, w>> \in {nw \in (1..MaxPixels) \X (1..MaxPixels) :
                           nw[1] % nw[2] = 0}}

\* lines 269-272: the stores of one cell.  loop holds the buffer, the loop
\* variables, for every pixel the cells stored there so far, and the four
\* bytes of every cell.
storeCell(loop) ==
  LET index == cellIndex(loop.r, loop.g, loop.b)
      bytes == loop.colours[<<loop.r, loop.g, loop.b>>]
  IN  [loop EXCEPT
         !.data = [@ EXCEPT ![index] = bytes[1], ![index + 1] = bytes[2],
                            ![index + 2] = bytes[3], ![index + 3] = bytes[4]],
         !.writes = [@ EXCEPT ![index \div 4] =
                                 Append(@, <<loop.r, loop.g, loop.b>>)]]

\* line 143: for (let r = 0; r < cubeSize; r++)
RECURSIVE loopR(_)
loopR(loop) ==
  IF loop.r < cubeSize
  THEN loopR([storeCell(loop) EXCEPT !.r = @ + 1])
  ELSE loop

\* line 142: for (let g = 0; g < cubeSize; g++)
RECURSIVE loopG(_)
loopG(loop) ==
  IF loop.g < cubeSize
  THEN loopG([loopR([loop EXCEPT !.r = 0]) EXCEPT !.g = @ + 1])
  ELSE loop

\* line 141: for (let b = 0; b < cubeSize; b++)
RECURSIVE loopB(_)
loopB(loop) ==
  IF loop.b < cubeSize
  THEN loopB([loopG([loop EXCEPT !.g = 0]) EXCEPT !.b = @ + 1])
  ELSE loop

\* lines 125-279.  The bytes of a cell depend on r, g, b and the parameters
\* alone (lines 149-272), so they are tabulated before the loops store them.
cellColours(p) ==
  [c \in (0..(cubeSize - 1)) \X (0..(cubeSize - 1)) \X (0..(cubeSize - 1)) |->
     cellBytes(c[1], c[2], c[3], p)]

generateLUT(p) ==
  loopB([data    |-> ZeroData,
         writes  |-> [px \in 0..(lutWidth * lutHeight - 1) |-> <<>>],
         colours |-> cellColours(p),
         r |-> 0, g |-> 0, b |-> 0])

InitLUT ==
  /\ lutParams \in LutParamSet
  /\ bakePc = "call"
  /\ writes = <<>>
  /\ lutDataURL = ""
  /\ IdleCurve /\ IdleCorr /\ IdleGrade /\ IdleApply /\ IdleMore

\* App.tsx lines 320-342: the LUT is generated from the current parameters
GenerateLUT ==
  /\ bakePc = "call"
  /\ LET returned(baked) ==
           /\ lutDataURL' = [width |-> lutWidth, height |-> lutHeight,
                             data |-> baked.data]
           /\ writes' = baked.writes
     IN  returned(generateLUT(lutParams))
  /\ bakePc' = "done"
  /\ UNCHANGED lutParams
  /\ UNCHANGED <<curveVars, corrVars, gradeVars, applyVars, moreVars>>

\* Math.round: the nearest integer, ties upward
jsRound(x) == RFloor(RAdd(x, Half))

\* the cell below the channel value instead of the nearest one
lutCoordinateFloor(channel) ==
  RFloor(RMul(RDiv(<<channel, 1>>, <<255, 1>>), <<cubeSize - 1, 1>>))

\* lines 332-334
lutCoordinate(channel) ==
  jsRound(RMul(RDiv(<<channel, 1>>, <<255, 1>>), <<cubeSize - 1, 1>>))

\* red and blue exchanged in the lookup position
lutPositionRedSlices(rIndex, gIndex, bIndex) ==
  LET x == rIndex * cubeSize + bIndex
      y == gIndex
  IN  (y * lutWidth + x) * 4

\* lines 337-339
lutPosition(rIndex, gIndex, bIndex) ==
  LET x == bIndex * cubeSize + rIndex
      y == gIndex
  IN  (y * lutWidth + x) * 4

\* lines 294-307: byte i of the 256 x 16 canvas after drawImage(lutImg, 0, 0);
\* pixels the image does not cover stay transparent black
lutDataAt(img, i) ==
  LET px == i \div 4
      x  == px % lutWidth
      y  == px \div lutWidth
  IN  IF x < img.width /\ y < img.height
      THEN img.data[(y * img.width + x) * 4 + (i % 4)]
      ELSE 0

\* lines 282-323: both images have loaded; the source image is drawn and its
\* pixel data read
ApplyBegin ==
  /\ bakePc = "done"
  /\ applyPc = "idle"
  /\ sourceImg' \in ImageSet
  /\ sourceData' = sourceImg'.data
  /\ ai' = 0
  /\ applyPc' = "loop"
  /\ UNCHANGED graded
  /\ UNCHANGED <<curveVars, corrVars, gradeVars, bakeVars, moreVars>>

\* lines 326-346: one iteration of the pixel loop
ApplyPixel ==
  /\ applyPc = "loop"
  /\ ai < 4 * sourceImg.width * sourceImg.height
  /\ LET rIndex   == lutCoordinate(sourceData[ai])
         gIndex   == lutCoordinate(sourceData[ai + 1])
         bIndex   == lutCoordinate(sourceData[ai + 2])
         lutIndex == lutPosition(rIndex, gIndex, bIndex)
     IN  sourceData' = [sourceData EXCEPT
                          ![ai]     = lutDataAt(lutDataURL, lutIndex),
                          ![ai + 1] = lutDataAt(lutDataURL, lutIndex + 1),
                          ![ai + 2] = lutDataAt(lutDataURL, lutIndex + 2)]
  /\ ai' = ai + 4
  /\ UNCHANGED <<sourceImg, applyPc, graded>>
  /\ UNCHANGED <<curveVars, corrVars, gradeVars, bakeVars, moreVars>>

\* lines 349-350
ApplyResolve ==
  /\ applyPc = "loop"
  /\ ai >= 4 * sourceImg.width * sourceImg.height
  /\ graded' = [width |-> sourceImg.width, height |-> sourceImg.height,
                data |-> sourceData]
  /\ applyPc' = "resolved"
  /\ UNCHANGED <<sourceImg, ai, sourceData>>
  /\ UNCHANGED <<curveVars, corrVars, gradeVars, bakeVars, moreVars>>

NextLUT == GenerateLUT \/ ApplyBegin \/ ApplyPixel \/ ApplyResolve

SpecLUT == InitLUT /\ [][NextLUT]_vars


\* the parameters are the identity grade with identity curves
IsIdentityGrade(p) ==
  /\ p.redCurve \in IdentityCurves
  /\ p.greenCurve \in IdentityCurves
  /\ p.blueCurve \in IdentityCurves
  /\ [p EXCEPT !.redCurve = DefaultCurve, !.greenCurve = DefaultCurve,
               !.blueCurve = DefaultCurve] = IdentityParams

\* pixel column b*16+r, row g of the 256 x 16 image, as a pixel number
PixelOfCell(r, g, b) == g * 256 + (b * 16 + r)

\* the three colour bytes at pixel px of buffer buf are within 1 of the
\* cell's own coordinate on the 0..255 scale
NearOwnCoordinate(buf, r, g, b) ==
  LET px == PixelOfCell(r, g, b)
  IN  /\ Abs(buf[4 * px] - 17 * r) <= 1
      /\ Abs(buf[4 * px + 1] - 17 * g) <= 1
      /\ Abs(buf[4 * px + 2] - 17 * b) <= 1

Cells == (0..15) \X (0..15) \X (0..15)

\* generateLUT has returned and its image has not been used yet
Baked == bakePc = "done" /\ applyPc = "idle"

\* C1: with identity parameters and identity curves (two-point or five-point
\* diagonal, per channel) every cell of the LUT holds its own normalised
\* coordinate (17r, 17g, 17b) within 1 on the 8-bit scale.
C1_IdentityLUT ==
  IsIdentityGrade(lutParams) =>
    (Baked =>
       \A c \in Cells : NearOwnCoordinate(lutDataURL.data, c[1], c[2], c[3]))

C1_Witness ==
  /\ bakePc = "done"
  /\ IsIdentityGrade(lutParams)
  /\ lutParams.redCurve = LinearCurve /\ lutParams.greenCurve = DefaultCurve
  /\ lutDataURL.data[4 * PixelOfCell(7, 9, 14)] = 119
  /\ lutDataURL.data[4 * PixelOfCell(7, 9, 14) + 1] = 153
  /\ lutDataURL.data[4 * PixelOfCell(7, 9, 14) + 2] = 238

\* C2: the buffer is 256 x 16; cell (r, g, b) is written at pixel column
\* b*16+r, row g; every pixel is written exactly once; every alpha is 255.
C2_LayoutBijection ==
  Baked =>
    /\ lutDataURL.width = 256 /\ lutDataURL.height = 16
    /\ DOMAIN lutDataURL.data = 0..(256 * 16 * 4 - 1)
    /\ \A c \in Cells : writes[PixelOfCell(c[1], c[2], c[3])] = <<c>>
    /\ \A px \in 0..(256 * 16 - 1) :
         Len(writes[px]) = 1 /\ lutDataURL.data[4 * px + 3] = 255

C2_Witness ==
  /\ bakePc = "done"
  /\ lutParams = TintedParams
  /\ writes[5 * 256 + 9 * 16 + 3] = <<(<<3, 5, 9>>)>>
  /\ lutDataURL.data[4 * PixelOfCell(3, 5, 9) + 3] = 255

\* round(channel / 255 * 15)
NearestCell(channel) == (2 * 15 * channel + 255) \div (2 * 255)

\* C3: every pixel (R, G, B, A) of the source image becomes
\* (L[p], L[p+1], L[p+2], A), where p is the position at which generateLUT
\* stored cell (round(R/255*15), round(G/255*15), round(B/255*15)); pixels
\* not yet reached are untouched; the result has the size of the source.
C3_AppliedThroughLUT ==
  applyPc \in {"loop", "resolved"} =>
    /\ \A j \in 0..(sourceImg.width * sourceImg.height - 1) :
         LET ri == NearestCell(sourceImg.data[4 * j])
             gi == NearestCell(sourceImg.data[4 * j + 1])
             bi == NearestCell(sourceImg.data[4 * j + 2])
             p  == cellIndex(ri, gi, bi)
             stored == cellBytes(ri, gi, bi, lutParams)
         IN  IF 4 * j < ai
             THEN /\ sourceData[4 * j] = lutDataURL.data[p]
                  /\ sourceData[4 * j + 1] = lutDataURL.data[p + 1]
                  /\ sourceData[4 * j + 2] = lutDataURL.data[p + 2]
                  /\ sourceData[4 * j + 3] = sourceImg.data[4 * j + 3]
                  /\ sourceData[4 * j] = stored[1]
                  /\ sourceData[4 * j + 1] = stored[2]
                  /\ sourceData[4 * j + 2] = stored[3]
             ELSE \A k \in 0..3 : sourceData[4 * j + k] = sourceImg.data[4 * j + k]
    /\ applyPc = "resolved" =>
         /\ ai = 4 * sourceImg.width * sourceImg.height
         /\ graded.width = sourceImg.width
         /\ graded.height = sourceImg.height
         /\ graded.data = sourceData

\* a graded two-pixel image with a translucent pixel whose colour changed
C3_Witness ==
  /\ applyPc = "resolved"
  /\ lutParams = TintedParams
  /\ sourceImg.width * sourceImg.height = 2
  /\ sourceImg.data[7] = 77 /\ graded.data[7] = 77
  /\ <<graded.data[4], graded.data[5], graded.data[6]>> #
       <<sourceImg.data[4], sourceImg.data[5], sourceImg.data[6]>>


(***************************************************************************)
(* SpecPoint: interpolateCurve evaluated at the x of the control points of *)
(* a curve, the values generateLUT bakes where the editor draws the points *)
(***************************************************************************)
\* y values as the editor produces them (ColorCurve.tsx 214): any number in
\* [0, 1], among them numbers whose difference is not a number again
PointY == {Zero, Q(1, 3), Q(1, Precision), One}
PointCurvePoints == {Pt(x, y) : x \in GridX, y \in PointY}
PointCurveSet ==
  UNION {{c \in [1..n -> PointCurvePoints] : IncreasingX(c)} : n \in 2..MaxCurveLen}

InitPoint ==
  /\ pCurve \in PointCurveSet
  /\ pIndex = 0
  /\ pValue = Zero
  /\ IdleCore /\ IdleLater("point")

\* interpolateCurve(points[k].x, points)
EvaluateAtPoint(k) ==
  /\ pIndex' = k
  /\ pValue' = interpolateCurve(pCurve[k].x, pCurve)
  /\ UNCHANGED <<pCurve, notPoint>>

NextPoint == \E k \in 1..Len(pCurve) : EvaluateAtPoint(k)

SpecPoint == InitPoint /\ [][NextPoint]_vars

\* C11: on a curve with at least 2 points and strictly increasing x in
\* [0, 1], interpolateCurve at the x of a control point returns exactly the
\* y of that control point.
C11_ControlPointsExact ==
  pIndex > 0 => pValue = pCurve[pIndex].y


(***************************************************************************)
(* SpecWorkers: the cells of generateLUT computed by two workers that      *)
(* share the ImageData buffer.  A worker takes its units one after the     *)
(* other; the two workers' steps interleave in any order.                  *)
(***************************************************************************)
Workers == {1, 2}
WorkerKinds == {"halves", "alternate", "rows"}
WorkerParamSet == {IdentityParams, TintedParams}

\* 0, 1, ..., n-1 for worker 1 (the order of the source's loops) and
\* n-1, ..., 0 for worker 2
Axis(w, n) == [k \in 1..n |-> IF w = 1 THEN k - 1 ELSE n - k]

\* a row of cells: g and b fixed, r as the worker orders it
RowOf(w, g, b) == [k \in 1..cubeSize |-> <<Axis(w, cubeSize)[k], g, b>>]

UnitCount == cubeSize \div 2

\* the rows of unit k of worker w
\*   halves:    worker 1 takes slices 0..7, worker 2 slices 8..15
\*   alternate: worker 1 takes the even slices, worker 2 the odd ones
\*   rows:      in every slice worker 1 takes the even rows, worker 2 the odd
\*              ones, two slices to a unit
UnitRows(kind, w, k) ==
  CASE kind = "halves" ->
         [j \in 1..cubeSize |->
            RowOf(w, Axis(w, cubeSize)[j], (w - 1) * (cubeSize \div 2) + k - 1)]
    [] kind = "alternate" ->
         [j \in 1..cubeSize |->
            RowOf(w, Axis(w, cubeSize)[j], 2 * (k - 1) + w - 1)]
    [] kind = "rows" ->
         [j \in 1..cubeSize |->
            RowOf(w, 2 * Axis(w, UnitCount)[((j - 1) % UnitCount) + 1] + w - 1,
                  2 * (k - 1) + ((j - 1) \div UnitCount))]

\* lines 269-272 for one cell c = <<r, g, b>>: the stores of its four bytes
storeOne(data, c, colours) ==
  LET put(index, bytes) ==
        [data EXCEPT ![index] = bytes[1], ![index + 1] = bytes[2],
                     ![index + 2] = bytes[3], ![index + 3] = bytes[4]]
  IN  put(cellIndex(c[1], c[2], c[3]), colours[c])

\* the cells of one row stored one after the other; at holds the buffer and
\* the position in the row
RECURSIVE storeRow(_, _, _)
storeRow(at, row, colours) ==
  IF at.k > Len(row) THEN at
  ELSE storeRow([data |-> storeOne(at.data, row[at.k], colours), k |-> at.k + 1],
                row, colours)

\* the rows of one unit stored one after the other
RECURSIVE storeRows(_, _, _)
storeRows(at, rows, colours) ==
  IF at.j > Len(rows) THEN at
  ELSE storeRows([data |-> storeRow([data |-> at.data, k |-> 1],
                                    rows[at.j], colours).data,
                  j |-> at.j + 1],
                 rows, colours)

InitWorkers ==
  /\ wParams \in WorkerParamSet
  /\ wKind \in WorkerKinds
  /\ wDone = <<0, 0>>
  /\ wData = ZeroData
  /\ wColours = cellColours(wParams)
  /\ IdleCore /\ IdleLater("workers")

\* worker w computes and stores the cells of its next unit
WorkerStep(w) ==
  /\ wDone[w] < UnitCount
  /\ wData' = storeRows([data |-> wData, j |-> 1],
                         UnitRows(wKind, w, wDone[w] + 1), wColours).data
  /\ wDone' = [wDone EXCEPT ![w] = @ + 1]
  /\ UNCHANGED <<wParams, wKind, wColours, notWorkers>>

NextWorkers == \E w \in Workers : WorkerStep(w)

SpecWorkers == InitWorkers /\ [][NextWorkers]_vars

WorkersFinished == \A w \in Workers : wDone[w] = UnitCount

PlainImage(w, h, px) ==
  [width |-> w, height |-> h,
   data |-> [i \in 0..(4 * w * h - 1) |-> px[(i % 4) + 1]]]

\* LUT images smaller and larger than 256 x 16
MismatchedLUTs ==
  {img \in ImageSet : img.height = 1}
  \cup {PlainImage(lutWidth + 1, lutHeight + 1, <<200, 17, 119, 255>>),
        PlainImage(lutHeight, lutWidth, <<8, 9, 128, 77>>)}

InitMismatch ==
  /\ lutParams = IdentityParams
  /\ bakePc = "done"
  /\ writes = <<>>
  /\ lutDataURL \in MismatchedLUTs
  /\ IdleCurve /\ IdleCorr /\ IdleGrade /\ IdleApply /\ IdleMore

\* lines 298-301, 313-316, 352, 356: an image fails to load or a canvas has
\* no 2d context
ApplyReject ==
  /\ bakePc = "done"
  /\ applyPc = "idle"
  /\ applyPc' = "rejected"
  /\ UNCHANGED <<sourceImg, ai, sourceData, graded>>
  /\ UNCHANGED <<curveVars, corrVars, gradeVars, bakeVars, moreVars>>

NextMismatch == ApplyBegin \/ ApplyPixel \/ ApplyResolve \/ ApplyReject

SpecMismatch == InitMismatch /\ [][NextMismatch]_vars

IsLutSized(img) == img.width = lutWidth /\ img.height = lutHeight
Settled == applyPc \in {"resolved", "rejected"}

\* C13: applyLUTToImage given a LUT image that is not 256 x 16 rejects the
\* promise and produces no graded image.
C13_MismatchRejects ==
  (Settled /\ ~IsLutSized(lutDataURL)) => (applyPc = "rejected" /\ graded = "")


(***************************************************************************)
(* SpecRound: a colour converted by rgbToHsv and back by hsvToRgb          *)
(***************************************************************************)
RoundChannel == {Zero, Q(1, Precision), Q(1, 5), Q(1, 3), Half, Q(7, 10), One}
RoundColors == {<<r, g, b>> : r \in RoundChannel, g \in RoundChannel,
                              b \in RoundChannel}

InitRound ==
  /\ rtColor \in RoundColors
  /\ rtPc = "rgb"
  /\ rtHsv = <<Zero, Zero, Zero>>
  /\ rtBack = Black
  /\ IdleCore /\ IdleLater("round")

\* colorUtils.ts 7-27
ToHsv ==
  /\ rtPc = "rgb"
  /\ rtHsv' = rgbToHsv(rtColor[1], rtColor[2], rtColor[3])
  /\ rtPc' = "hsv"
  /\ UNCHANGED <<rtColor, rtBack, notRound>>

\* colorUtils.ts 30-46
BackToRgb ==
  /\ rtPc = "hsv"
  /\ rtBack' = hsvToRgb(rtHsv[1], rtHsv[2], rtHsv[3])
  /\ rtPc' = "back"
  /\ UNCHANGED <<rtColor, rtHsv, notRound>>

NextRound == ToHsv \/ BackToRgb

SpecRound == InitRound /\ [][NextRound]_vars

\* C14: for every (r, g, b) in [0,1]^3 hsvToRgb(rgbToHsv(r, g, b)) equals
\* (r, g, b), and the hue rgbToHsv returns is in [0, 1).
C14_RoundTrip ==
  /\ rtPc \in {"hsv", "back"} => (RGe(rtHsv[1], Zero) /\ RLt(rtHsv[1], One))
  /\ rtPc = "back" => rtBack = rtColor


(***************************************************************************)
(* three.js CatmullRomCurve3 as ColorCurve.tsx uses it: curveType          *)
(* 'catmullrom', tension 0.5, open curve, getPointAt by arc length over    *)
(* 200 divisions.  Points of the curve are pairs <<x, y>> (z is 0).        *)
(***************************************************************************)
tension == Half
arcLengthDivisions == 200

\* CubicPoly.initCatmullRom(x0, x1, x2, x3, tension) followed by calc(w)
cubicPoly(x0, x1, x2, x3, w) ==
  LET calc(c0, c1, c2, c3) ==
        RAdd(RAdd(RAdd(c0, RMul(c1, w)), RMul(c2, RMul(w, w))),
             RMul(c3, RMul(RMul(w, w), w)))
      init(p0, p1, t0, t1) ==
        calc(p0, t0,
             RSub(RSub(RSub(RMul(<<3, 1>>, p1), RMul(<<3, 1>>, p0)),
                       RMul(<<2, 1>>, t0)), t1),
             RAdd(RAdd(RSub(RMul(<<2, 1>>, p0), RMul(<<2, 1>>, p1)), t0), t1))
  IN  init(x1, x2, RMul(tension, RSub(x2, x0)), RMul(tension, RSub(x3, x1)))

\* one coordinate of the segment that starts at cp[intPoint + 1]; the points
\* before the first and after the last are extrapolated
getPointAxis(cp, k, intPoint, weight) ==
  cubicPoly(IF intPoint > 0 THEN cp[intPoint][k]
            ELSE RAdd(RSub(cp[1][k], cp[2][k]), cp[1][k]),
            cp[intPoint + 1][k],
            cp[intPoint + 2][k],
            IF intPoint + 2 < Len(cp) THEN cp[intPoint + 3][k]
            ELSE RAdd(RSub(cp[Len(cp)][k], cp[Len(cp) - 1][k]), cp[Len(cp)][k]),
            weight)

\* weight === 0 && intPoint === l - 1: the end of the last segment
atLastPoint(cp, p) ==
  RSub(p, <<RFloor(p), 1>>) = Zero /\ RFloor(p) = Len(cp) - 1

\* the point at p = (l - 1) * t
getPointFrom(cp, p) ==
  LET at(intPoint, weight) ==
        <<getPointAxis(cp, 1, intPoint, weight),
          getPointAxis(cp, 2, intPoint, weight)>>
  IN  IF atLastPoint(cp, p) THEN at(Len(cp) - 2, One)
      ELSE at(RFloor(p), RSub(p, <<RFloor(p), 1>>))

\* CatmullRomCurve3.getPoint(t); cp[1] is points[0]
getPoint(cp, t) == getPointFrom(cp, RMul(<<Len(cp) - 1, 1>>, t))

\* the largest k in lo..hi with k * k <= n
RECURSIVE sqrtBetween(_, _, _)
sqrtBetween(lo, hi, n) ==
  IF lo >= hi THEN lo
  ELSE LET half(mid) ==
             IF mid * mid <= n THEN sqrtBetween(mid, hi, n)
             ELSE sqrtBetween(lo, mid - 1, n)
       IN  half((lo + hi + 1) \div 2)

\* q in units of 1/Precision, to the nearest unit
GridUnits(q) ==
  LET units(g) == g[1] * (Precision \div g[2])
  IN  units(RoundToGrid(q[1], q[2]))

\* Vector3.distanceTo, Math.sqrt of a sum of two squares: to 1/Precision
distanceTo(p, q) ==
  LET \* 46340 is the largest integer whose square fits 32 bits
      root(n) == Q(sqrtBetween(0, IF n < 46340 THEN n ELSE 46340, n), Precision)
      hyp(a, b) == root(a * a + b * b)
  IN  hyp(GridUnits(RSub(p[1], q[1])), GridUnits(RSub(p[2], q[2])))

\* Curve.getLengths(): cache[p + 1] is the length of the polyline through
\* getPoint(0), getPoint(1/200), ..., getPoint(p/200).  The loop over p is
\* run in blocks of lengthsBlock iterations.
lengthsBlock == 20

RECURSIVE lengthsUpTo(_, _, _)
lengthsUpTo(cp, st, stop) ==
  IF st.p > stop \/ st.p > arcLengthDivisions THEN st
  ELSE LET next(current) ==
             lengthsUpTo(cp, [cache |-> Append(st.cache,
                                               RAdd(st.cache[st.p],
                                                    distanceTo(current, st.last))),
                              last  |-> current,
                              p     |-> st.p + 1],
                         stop)
       IN  next(getPoint(cp, Q(st.p, arcLengthDivisions)))

RECURSIVE lengthsFrom(_, _)
lengthsFrom(cp, st) ==
  IF st.p > arcLengthDivisions THEN st.cache
  ELSE lengthsFrom(cp, lengthsUpTo(cp, st, st.p + lengthsBlock - 1))

getLengths(cp) ==
  lengthsFrom(cp, [cache |-> <<Zero>>, last |-> getPoint(cp, Zero), p |-> 1])

\* the binary search of Curve.getUtoTmapping: the final value of high
RECURSIVE searchLengths(_, _, _, _)
searchLengths(arcLengths, target, low, high) ==
  IF low > high THEN high
  ELSE LET probe(i) ==
             IF RLt(arcLengths[i + 1], target)
             THEN searchLengths(arcLengths, target, i + 1, high)
             ELSE IF RGt(arcLengths[i + 1], target)
                  THEN searchLengths(arcLengths, target, low, i - 1)
                  ELSE i
       IN  probe(low + ((high - low) \div 2))

\* Curve.getUtoTmapping(u)
getUtoTmapping(arcLengths, u) ==
  LET il == Len(arcLengths)
      mapped(target, i) ==
        IF arcLengths[i + 1] = target THEN Q(i, il - 1)
        ELSE RDiv(RAdd(<<i, 1>>,
                       RDiv(RSub(target, arcLengths[i + 1]),
                            RSub(arcLengths[i + 2], arcLengths[i + 1]))),
                  <<il - 1, 1>>)
      found(target) == mapped(target, searchLengths(arcLengths, target, 0, il - 1))
  IN  found(RMul(u, arcLengths[il]))

\* Curve.getPointAt(u), the cached arc lengths given
getPointAt(cp, arcLengths, u) == getPoint(cp, getUtoTmapping(arcLengths, u))


(***************************************************************************)
(* SpecEditor: the curve editor (ColorCurve.tsx).  The parent holds the    *)
(* curve and hands it back as the points prop after every onChange         *)
(* (App.tsx 500-530: onChange is the state setter).  Mouse positions are   *)
(* the x and y the handlers compute from the event, in canvas units.       *)
(***************************************************************************)
\* useState(null) of draggedIndex and draggedMidpointIndex
NoIndex == -1

\* width / height of the canvas (lines 36, 49): a 240 px wide container
aspectRatio == <<2, 1>>

MaxEvents == 5

MouseSet ==
  {<<Zero, Zero>>, <<Q(1, 100), Q(1, 100)>>, <<Q(3, 40), Q(3, 40)>>,
   <<Q(1, 4), Q(1, 4)>>, <<Q(3, 5), Q(2, 5)>>, <<One, One>>}

\* lines 171, 69: points.map(p => new THREE.Vector3(p.x * aspectRatio, p.y, 0))
curvePointsOf(pts) ==
  [i \in 1..Len(pts) |-> <<RMul(pts[i].x, aspectRatio), pts[i].y>>]

\* line 178: the midpoint handle i (from 0) in canvas units
midpointAt(pts, cp, arcLengths, i) ==
  LET scaled(curvePoint) == <<RDiv(curvePoint[1], aspectRatio), curvePoint[2]>>
  IN  scaled(getPointAt(cp, arcLengths, RDiv(Q(2 * i + 1, 2), <<Len(pts) - 1, 1>>)))

\* lines 177-189: the first midpoint handle within 0.06 of (x, y), or NoIndex
RECURSIVE midpointHit(_, _, _, _, _, _)
midpointHit(pts, cp, arcLengths, x, y, i) ==
  IF i >= Len(pts) - 1 THEN NoIndex
  ELSE IF RLt(distanceTo(midpointAt(pts, cp, arcLengths, i), <<x, y>>), Q(6, 100))
       THEN i
       ELSE midpointHit(pts, cp, arcLengths, x, y, i + 1)

\* line 183: newPoints.splice(i + 1, 0, q)
splice(pts, i, q) ==
  [k \in 1..(Len(pts) + 1) |->
     IF k <= i + 1 THEN pts[k] ELSE IF k = i + 2 THEN q ELSE pts[k - 1]]

\* lines 192-200: the closest control point (from 0); the first of equally
\* close points is kept
RECURSIVE closestFrom(_, _, _, _, _)
closestFrom(pts, x, y, k, best) ==
  IF k > Len(pts) THEN best
  ELSE LET compared(dist) ==
             closestFrom(pts, x, y, k + 1,
                         IF RLt(dist, best.closestDist)
                         THEN [closestIndex |-> k - 1, closestDist |-> dist]
                         ELSE best)
       IN  compared(distanceTo(<<pts[k].x, pts[k].y>>, <<x, y>>))

closest(pts, x, y) ==
  closestFrom(pts, x, y, 2,
              [closestIndex |-> 0,
               closestDist |-> distanceTo(<<pts[1].x, pts[1].y>>, <<x, y>>)])

\* lines 192-204: no handle was hit, a control point within 0.1 is grabbed
grabPoint(c) ==
  /\ draggedIndex' = IF RLt(c.closestDist, Q(1, 10)) THEN c.closestIndex
                     ELSE draggedIndex
  /\ UNCHANGED <<points, draggedMidpointIndex, changed>>

\* lines 181-187: a point is inserted at midpoint handle i and dragged
insertPoint(i, newPoints) ==
  /\ draggedMidpointIndex' = i
  /\ points' = newPoints
  /\ changed' = [curve |-> newPoints, calls |-> changed.calls + 1]
  /\ draggedIndex' = i + 1

\* line 182: { x: midpoint.x / aspectRatio, y: midpoint.y }
newPointAt(cp, arcLengths, i) ==
  LET q(m) == Pt(m[1], m[2])
  IN  q(midpointAt(points, cp, arcLengths, i))

\* lines 176-204, i the handle the loop over the midpoints stopped at
mouseDownAt(cp, arcLengths, x, y, i) ==
  IF i # NoIndex
  THEN insertPoint(i, splice(points, i, newPointAt(cp, arcLengths, i)))
  ELSE grabPoint(closest(points, x, y))

\* lines 171-204, the curve through cp and its arc lengths given
mouseDownOn(cp, arcLengths, x, y) ==
  mouseDownAt(cp, arcLengths, x, y, midpointHit(points, cp, arcLengths, x, y, 0))

\* lines 164-205
handleMouseDown(x, y) ==
  mouseDownOn(curvePointsOf(points), getLengths(curvePointsOf(points)), x, y)

\* a move handler without the early return of line 208: with no drag active
\* it moves the first point
handleMouseMoveAlways(mx, my) ==
  LET moved(newPoints) ==
        /\ points' = newPoints
        /\ changed' = [curve |-> newPoints, calls |-> changed.calls + 1]
        /\ UNCHANGED <<draggedIndex, draggedMidpointIndex>>
      at(i) == moved([points EXCEPT ![i + 1] = Pt(Clamp01(mx), Clamp01(my))])
  IN  at(IF draggedIndex = NoIndex THEN 0 ELSE draggedIndex)

\* lines 207-224
handleMouseMove(mx, my) ==
  IF draggedIndex = NoIndex
  THEN UNCHANGED <<points, draggedIndex, draggedMidpointIndex, changed>>
  ELSE LET moved(newPoints) ==
             /\ points' = newPoints
             /\ changed' = [curve |-> newPoints, calls |-> changed.calls + 1]
             /\ UNCHANGED <<draggedIndex, draggedMidpointIndex>>
           constrained(x, y, minX, maxX) ==
             moved([points EXCEPT ![draggedIndex + 1] =
                                     Pt(RMax(minX, RMin(maxX, x)), y)])
       IN  constrained(Clamp01(mx), Clamp01(my),
                       IF draggedIndex > 0
                       THEN RAdd(points[draggedIndex].x, Q(1, 1000)) ELSE Zero,
                       IF draggedIndex < Len(points) - 1
                       THEN RSub(points[draggedIndex + 2].x, Q(1, 1000)) ELSE One)

\* lines 226-229
handleMouseUp ==
  /\ draggedIndex' = NoIndex
  /\ draggedMidpointIndex' = NoIndex
  /\ UNCHANGED <<points, changed>>

InitEditor ==
  /\ points = DefaultCurve
  /\ draggedIndex = NoIndex /\ draggedMidpointIndex = NoIndex
  /\ changed = [curve |-> <<>>, calls |-> 0]
  /\ pressed = FALSE
  /\ events = 0
  /\ IdleCore /\ IdleLater("editor")

\* the button goes down over the canvas
MouseDown(m) ==
  /\ events < MaxEvents /\ ~pressed
  /\ handleMouseDown(m[1], m[2])
  /\ pressed' = TRUE /\ events' = events + 1
  /\ UNCHANGED notEditor

MouseMove(m) ==
  /\ events < MaxEvents
  /\ handleMouseMove(m[1], m[2])
  /\ events' = events + 1
  /\ UNCHANGED <<pressed, notEditor>>

MouseUp ==
  /\ events < MaxEvents /\ pressed
  /\ handleMouseUp
  /\ pressed' = FALSE /\ events' = events + 1
  /\ UNCHANGED notEditor

\* line 243: onMouseLeave={handleMouseUp}; the button stays as it is
MouseLeave ==
  /\ events < MaxEvents
  /\ handleMouseUp
  /\ events' = events + 1
  /\ UNCHANGED <<pressed, notEditor>>

NextEditor ==
  \/ \E m \in MouseSet : MouseDown(m)
  \/ \E m \in MouseSet : MouseMove(m)
  \/ MouseUp
  \/ MouseLeave

SpecEditor == InitEditor /\ [][NextEditor]_vars

\* C15: every curve passed to onChange has first x = 0 and last x = 1.
C15_EndpointsPinned ==
  changed.calls > 0 =>
    /\ changed.curve[1].x = Zero
    /\ changed.curve[Len(changed.curve)].x = One

\* C16: every curve passed to onChange has at least 2 points and strictly
\* increasing x.
C16_StrictlyIncreasing ==
  changed.calls > 0 =>
    /\ Len(changed.curve) >= 2
    /\ IncreasingX(changed.curve)


(***************************************************************************)
(* SpecWheel: the colour wheel (ParameterSlider.tsx ColorWheel).  The      *)
(* parent holds the offset and hands it back as a prop after onChange.     *)
(* Mouse positions are the scene coordinates x, y the handlers compute.    *)
(***************************************************************************)
MaxWheelEvents == 4

WheelAxis == {<<-1, 1>>, Q(-1, 2), Zero, Q(1, 10), Q(3, 5), One}
WheelMouseSet == {<<x, y>> : x \in WheelAxis, y \in WheelAxis}

\* lines 163-177
wheelMouseDown(x, y) ==
  LET near(dist) ==
        isDragging' = IF RLt(dist, Q(15, 100)) THEN TRUE ELSE isDragging
      handleAt(handleX, handleY) == near(distanceTo(<<x, y>>, <<handleX, handleY>>))
  IN  /\ handleAt(RMul(wheelOffset.x, Q(6, 10)), RMul(wheelOffset.y, Q(6, 10)))
      /\ UNCHANGED <<wheelOffset, wheelChanged>>

\* lines 179-200
wheelMouseMove(mx, my) ==
  IF ~isDragging
  THEN UNCHANGED <<wheelOffset, wheelChanged, isDragging>>
  ELSE LET onChange(o) ==
             /\ wheelOffset' = o
             /\ wheelChanged' = [offset |-> o, calls |-> wheelChanged.calls + 1]
             /\ UNCHANGED isDragging
           converted(x, y) == onChange([x |-> RDiv(x, Q(6, 10)), y |-> RDiv(y, Q(6, 10))])
           constrained(dist) ==
             IF RGt(dist, Q(7, 10))
             THEN converted(RMul(RDiv(mx, dist), Q(7, 10)),
                            RMul(RDiv(my, dist), Q(7, 10)))
             ELSE converted(mx, my)
       IN  constrained(distanceTo(<<mx, my>>, <<Zero, Zero>>))

\* lines 202-204
wheelMouseUp ==
  /\ isDragging' = FALSE
  /\ UNCHANGED <<wheelOffset, wheelChanged>>

InitWheel ==
  /\ wheelOffset = NoOffset
  /\ isDragging = FALSE
  /\ wheelChanged = [offset |-> NoOffset, calls |-> 0]
  /\ wheelEvents = 0
  /\ IdleCore /\ IdleLater("wheel")

WheelDown(m) ==
  /\ wheelEvents < MaxWheelEvents
  /\ wheelMouseDown(m[1], m[2])
  /\ wheelEvents' = wheelEvents + 1
  /\ UNCHANGED notWheel

WheelMove(m) ==
  /\ wheelEvents < MaxWheelEvents
  /\ wheelMouseMove(m[1], m[2])
  /\ wheelEvents' = wheelEvents + 1
  /\ UNCHANGED notWheel

\* onMouseUp and onMouseLeave
WheelUp ==
  /\ wheelEvents < MaxWheelEvents
  /\ wheelMouseUp
  /\ wheelEvents' = wheelEvents + 1
  /\ UNCHANGED notWheel

NextWheel ==
  \/ \E m \in WheelMouseSet : WheelDown(m)
  \/ \E m \in WheelMouseSet : WheelMove(m)
  \/ WheelUp

SpecWheel == InitWheel /\ [][NextWheel]_vars

InUnit(a) == RLe(<<-1, 1>>, a) /\ RLe(a, One)

\* C17: every offset the colour wheel passes to onChange has x and y within
\* [-1, 1].
C17_OffsetInUnitSquare ==
  wheelChanged.calls > 0 =>
    InUnit(wheelChanged.offset.x) /\ InUnit(wheelChanged.offset.y)


(***************************************************************************)
(* SpecVibrancy: the HSV block of generateLUT on one colour, with the      *)
(* vibrancy of the parameters and with vibrancy 0                          *)
(***************************************************************************)
\* the slider ranges of App.tsx 457-485, in steps the model can afford
SaturationSet == {Zero, Half, One, Q(3, 2), <<2, 1>>}
VibrancySet   == {Zero, Q(1, 10), Half, One, Q(3, 2), <<2, 1>>}

InitVibrancy ==
  /\ vColor \in ColorSet
  /\ vParams \in {[IdentityParams EXCEPT !.saturation = s, !.vibrancy = v] :
                    s \in SaturationSet, v \in VibrancySet}
  /\ vHsv = <<>> /\ vPlain = <<>>
  /\ vPc = "stage"
  /\ IdleCore /\ IdleLater("vibrancy")

\* lines 176-196 run on the colour; vPlain is the same block with vibrancy 0
RunHsvBlock ==
  /\ vPc = "stage"
  /\ vHsv' = hsvAdjust(vColor, vParams)
  /\ vPlain' = hsvAdjust(vColor, [vParams EXCEPT !.vibrancy = Zero])
  /\ vPc' = "done"
  /\ UNCHANGED <<vColor, vParams, notVibrancy>>

NextVibrancy == RunHsvBlock

SpecVibrancy == InitVibrancy /\ [][NextVibrancy]_vars

\* C18: with vibrancy >= 0 the saturation the HSV block leaves is never
\* lower than the one it leaves with vibrancy 0, and a colour that is fully
\* saturated with vibrancy 0 stays fully saturated.
C18_VibrancyNeverDesaturates ==
  vPc = "done" =>
    /\ RGe(vHsv[2], vPlain[2])
    /\ (vPlain[2] = One => vHsv[2] = One)


(***************************************************************************)
(* SpecDistance: the distance matchesColorRange computes between a colour  *)
(* and a target                                                            *)
(***************************************************************************)
Magenta == <<One, Zero, One>>
DistanceColors == ColorSet \cup {Magenta, <<Zero, One, Zero>>, <<Q(1, 3), Q(1, 3), One>>}

InitDistance ==
  /\ dColor \in DistanceColors
  /\ dTarget \in DistanceColors
  /\ dSq = Zero
  /\ dPc = "call"
  /\ IdleCore /\ IdleLater("distance")

\* lines 44-61
MeasureDistance ==
  /\ dPc = "call"
  /\ dSq' = hsvDistanceSq(dColor[1], dColor[2], dColor[3],
                          dTarget[1], dTarget[2], dTarget[3])
  /\ dPc' = "done"
  /\ UNCHANGED <<dColor, dTarget, notDistance>>

NextDistance == MeasureDistance

SpecDistance == InitDistance /\ [][NextDistance]_vars

\* the colour and the target differ as much as two colours can in hue
\* (half a turn), in saturation and in value
FarthestApart ==
  LET apart(hsv, target) ==
        /\ RAbs(RSub(hsv[1], target[1])) = Half
        /\ RAbs(RSub(hsv[2], target[2])) = One
        /\ RAbs(RSub(hsv[3], target[3])) = One
  IN  apart(rgbToHsv(dColor[1], dColor[2], dColor[3]),
            rgbToHsv(dTarget[1], dTarget[2], dTarget[3]))

MaxEdits == 2

\* App.tsx 341: a dependency list that leaves the corrections out
memoDepsWithoutCorrections ==
  {"exposure", "brightness", "contrast", "hue", "saturation", "value",
   "vibrancy", "crossProcess", "redCurve", "greenCurve", "blueCurve",
   "lift", "liftStrength", "gamma", "gammaStrength", "gain", "gainStrength"}

\* App.tsx 341: the dependency list of the memo
memoDeps ==
  {"exposure", "brightness", "contrast", "hue", "saturation", "value",
   "vibrancy", "crossProcess", "redCurve", "greenCurve", "blueCurve",
   "lift", "liftStrength", "gamma", "gammaStrength", "gain", "gainStrength",
   "colorCorrections"}

\* App.tsx 322-340: the state generateLUT is called with
lutArguments(st) ==
  [exposure |-> st.exposure, brightness |-> st.brightness,
   contrast |-> st.contrast, hue |-> st.hue, saturation |-> st.saturation,
   value |-> st.value, vibrancy |-> st.vibrancy,
   crossProcess |-> st.crossProcess,
   redCurve |-> st.redCurve, greenCurve |-> st.greenCurve,
   blueCurve |-> st.blueCurve,
   lift |-> st.lift, liftStrength |-> st.liftStrength,
   gamma |-> st.gamma, gammaStrength |-> st.gammaStrength,
   gain |-> st.gain, gainStrength |-> st.gainStrength,
   colorCorrections |-> st.colorCorrections]

\* the cells the LUT in use is read at
LutCells == {<<0, 0, 0>>, <<15, 0, 0>>, <<0, 15, 3>>, <<8, 8, 8>>,
             <<3, 8, 12>>, <<15, 15, 15>>}

\* the bytes generateLUT stores for these cells
lutAt(p) == [c \in LutCells |-> cellBytes(c[1], c[2], c[3], p)]

\* useMemo: the factory runs when a dependency is not Object.is-equal to the
\* one of the previous render: a primitive of another value, or an object
\* in `fresh`, the state the update replaced by a new object
useMemo(m, st, fresh) ==
  IF \E d \in memoDeps : d \in fresh \/ m.deps[d] # st[d]
  THEN [deps  |-> [d \in memoDeps |-> st[d]],
        value |-> lutAt(lutArguments(st))]
  ELSE m

\* the sliders and the value each is moved to
Sliders == {"exposure", "brightness", "contrast", "hue", "saturation",
            "value", "vibrancy", "crossProcess"}
SliderValue(f) ==
  CASE f = "exposure"     -> 1
    [] f = "brightness"   -> Q(3, 2)
    [] f = "contrast"     -> Q(3, 2)
    [] f = "hue"          -> <<120, 1>>
    [] f = "saturation"   -> Half
    [] f = "value"        -> Half
    [] f = "vibrancy"     -> Half
    [] f = "crossProcess" -> Half
Curves == {"redCurve", "greenCurve", "blueCurve"}
Wheels == {"lift", "gamma", "gain"}
WheelOffset == [x |-> Half, y |-> Q(-1, 4)]
PickedColors == {Red, Grey}
Updates == {[adjustments |-> Adjust(Zero, Zero, Zero, Half)],
            [enabled |-> FALSE]}

\* { ...c, ...updates }
spread(c, updates) ==
  [k \in DOMAIN c |-> IF k \in DOMAIN updates THEN updates[k] ELSE c[k]]

\* a map that updates every correction, whatever its id
mapEveryCorrection(cs, id, updates) ==
  [i \in 1..Len(cs) |-> spread(cs[i], updates)]

\* corrections.map(c => c.id === id ? { ...c, ...updates } : c)
mapCorrections(cs, id, updates) ==
  [i \in 1..Len(cs) |->
     IF cs[i].id = id THEN spread(cs[i], updates)
     ELSE cs[i]]

\* corrections.filter(c => c.id !== id)
filterCorrections(cs, id) ==
  SelectSeq(cs, LAMBDA c : c.id # id)

CorrectionIds == {app.colorCorrections[i].id : i \in 1..Len(app.colorCorrections)}

\* the first render: default state, the memo's factory has run
InitApp ==
  /\ app = IdentityParams
  /\ replaced = {}
  /\ pickingColorForId = <<>>
  /\ lutBase64 = lutAt(lutArguments(app))
  /\ memo = [deps  |-> [d \in memoDeps |-> IdentityParams[d]],
             value |-> lutBase64]
  /\ edits = 0
  /\ now = 1
  /\ IdleCore /\ IdleLater("app")

\* a setter called with a primitive
setValue(f, v) ==
  /\ edits < MaxEdits
  /\ app' = [app EXCEPT ![f] = v]
  /\ replaced' = {}
  /\ edits' = edits + 1

\* a setter called with a new array or object
setObject(f, v) ==
  /\ edits < MaxEdits
  /\ app' = [app EXCEPT ![f] = v]
  /\ replaced' = {f}
  /\ edits' = edits + 1

SetSlider(f) ==
  /\ setValue(f, SliderValue(f))
  /\ UNCHANGED <<pickingColorForId, now>>

ResetSlider(f) ==
  /\ setValue(f, IdentityParams[f])
  /\ UNCHANGED <<pickingColorForId, now>>

EditCurve(f) ==
  /\ setObject(f, InvertedCurve)
  /\ UNCHANGED <<pickingColorForId, now>>

ResetCurve(f) ==
  /\ setObject(f, DefaultCurve)
  /\ UNCHANGED <<pickingColorForId, now>>

EditWheel(f) ==
  /\ setObject(f, WheelOffset)
  /\ UNCHANGED <<pickingColorForId, now>>

ResetWheel(f) ==
  /\ setObject(f, NoOffset)
  /\ UNCHANGED <<pickingColorForId, now>>

\* ColorCorrectionPanel.tsx 17-31; t is what Date.now() returns, the
\* millisecond of its last reading or a later one
addCorrection(t) ==
  /\ setObject("colorCorrections",
               Append(app.colorCorrections, NewCorrection(t)))
  /\ now' = t
  /\ UNCHANGED pickingColorForId

removeCorrection(id) ==
  /\ setObject("colorCorrections",
               filterCorrections(app.colorCorrections, id))
  /\ UNCHANGED <<pickingColorForId, now>>

updateCorrection(id, updates) ==
  /\ setObject("colorCorrections",
               mapCorrections(app.colorCorrections, id, updates))
  /\ UNCHANGED <<pickingColorForId, now>>

handlePickColor(id) ==
  /\ pickingColorForId # <<id>>
  /\ pickingColorForId' = <<id>>
  /\ replaced' = {}
  /\ UNCHANGED <<app, edits, now>>

\* App.tsx 356-367; a pick ends the pick it belongs to, so it needs no bound
handleColorPicked(picked) ==
  /\ pickingColorForId # <<>>
  /\ app' = [app EXCEPT !.colorCorrections =
                mapCorrections(app.colorCorrections, pickingColorForId[1],
                               [targetColor |-> picked])]
  /\ replaced' = {"colorCorrections"}
  /\ pickingColorForId' = <<>>
  /\ UNCHANGED <<edits, now>>

\* the render that follows a state update: the memo is evaluated and its
\* value is handed to the preview and the map
Render ==
  /\ memo' = useMemo(memo, app', replaced')
  /\ lutBase64' = memo'.value

\* every handler's update is followed by the render, in one step
NextApp ==
  /\ \/ \E f \in Sliders : SetSlider(f)
     \/ \E f \in Sliders : ResetSlider(f)
     \/ \E f \in Curves : EditCurve(f)
     \/ \E f \in Curves : ResetCurve(f)
     \/ \E f \in Wheels : EditWheel(f)
     \/ \E f \in Wheels : ResetWheel(f)
     \/ \E t \in {now, now + 1} : addCorrection(t)
     \/ \E id \in CorrectionIds : removeCorrection(id)
     \/ \E id \in CorrectionIds, u \in Updates : updateCorrection(id, u)
     \/ \E id \in CorrectionIds : handlePickColor(id)
     \/ \E c \in PickedColors : handleColorPicked(c)
  /\ Render
  /\ UNCHANGED notApp

SpecApp == InitApp /\ [][NextApp]_vars

\* C20: after any sequence of edits, the LUT the render hands to the preview
\* and the map is generateLUT of the current values of all parameters
C20_LutIsCurrent == lutBase64 = lutAt(lutArguments(app))

\* a correction was added and edited, and the LUT in use is no longer the
\* one of the first render
C20_Witness ==
  /\ edits = MaxEdits
  /\ Len(app.colorCorrections) = 1
  /\ app.colorCorrections[1].adjustments # NoAdjust
  /\ lutBase64 # lutAt(lutArguments(IdentityParams))



\* C21: no two corrections in the list have the same id
C21_DistinctIds ==
  \A i, j \in 1..Len(app.colorCorrections) :
    i # j => app.colorCorrections[i].id # app.colorCorrections[j].id

\* C24: pickingColorForId is null or the id of a correction in the list
C24_PickingForListed ==
  pickingColorForId = <<>> \/ pickingColorForId[1] \in CorrectionIds



(***************************************************************************)
(* SpecPreview: the image-preview App (part_001).  Every LUT change starts *)
(* an applyLUTToImage; its images load in the background and its result is *)
(* stored as processedImage when the promise resolves.  A LUT is named by  *)
(* the parameter value it was generated from.                              *)
(***************************************************************************)
MaxChanges == 3
ExposureSet == {0, 1, 2}

\* part_001 302-305: the LUT generated from the parameters
lutOf(e) == [lut |-> e]

\* part_001 221-299: a started application, waiting for its source image
started(l) == [lut |-> l, pc |-> "source"]

InitPreview ==
  /\ pvExposure = 0
  /\ pvLut = lutOf(0)
  /\ pvApplications = <<started(lutOf(0))>>
  /\ processedImage = ""
  /\ pvChanges = 0
  /\ IdleCore /\ IdleLater("preview")

\* part_001 302-314: a slider moves; the first effect stores the new LUT, the
\* second one starts an application of it
ChangeExposure(e) ==
  /\ pvChanges < MaxChanges
  /\ e # pvExposure
  /\ pvExposure' = e
  /\ pvLut' = lutOf(e)
  /\ pvApplications' = Append(pvApplications, started(lutOf(e)))
  /\ pvChanges' = pvChanges + 1
  /\ UNCHANGED <<processedImage, notPreview>>

\* part_001 228-230, 292-293: sourceImg.onload starts the load of the LUT
SourceLoaded(i) ==
  /\ pvApplications[i].pc = "source"
  /\ pvApplications' = [pvApplications EXCEPT ![i].pc = "lut"]
  /\ UNCHANGED <<pvExposure, pvLut, processedImage, pvChanges, notPreview>>

\* part_001 296, 313: sourceImg.onerror rejects, the error is logged
SourceFailed(i) ==
  /\ pvApplications[i].pc = "source"
  /\ pvApplications' = [pvApplications EXCEPT ![i].pc = "rejected"]
  /\ UNCHANGED <<pvExposure, pvLut, processedImage, pvChanges, notPreview>>

\* part_001 231-290, 312: lutImg.onload maps the pixels and resolves; the
\* then-callback stores the result
LutLoaded(i) ==
  /\ pvApplications[i].pc = "lut"
  /\ pvApplications' = [pvApplications EXCEPT ![i].pc = "resolved"]
  /\ processedImage' = [appliedLut |-> pvApplications[i].lut]
  /\ UNCHANGED <<pvExposure, pvLut, pvChanges, notPreview>>

\* part_001 238-241, 254-257, 292, 313: the LUT image fails to load or a
\* canvas has no context; the promise rejects, the error is logged
LutFailed(i) ==
  /\ pvApplications[i].pc = "lut"
  /\ pvApplications' = [pvApplications EXCEPT ![i].pc = "rejected"]
  /\ UNCHANGED <<pvExposure, pvLut, processedImage, pvChanges, notPreview>>

NextPreview ==
  \/ \E e \in ExposureSet : ChangeExposure(e)
  \/ \E i \in DOMAIN pvApplications : SourceLoaded(i)
  \/ \E i \in DOMAIN pvApplications : SourceFailed(i)
  \/ \E i \in DOMAIN pvApplications : LutLoaded(i)
  \/ \E i \in DOMAIN pvApplications : LutFailed(i)

SpecPreview == InitPreview /\ [][NextPreview]_vars

AllSettled ==
  \A i \in DOMAIN pvApplications : pvApplications[i].pc \in {"resolved", "rejected"}

\* C22: once every started application has settled, and the one of the most
\* recent LUT resolved, processedImage is the image computed from that LUT
C22_LatestLutDisplayed ==
  (AllSettled /\ Last(pvApplications).pc = "resolved")
    => processedImage = [appliedLut |-> pvLut]



\* C28: with crossProcess in [0, 1], the luminance computed after the
\* cross-process stage lies in [0, 1], and so do the weights of lift, gamma
\* and gain computed from it
C28_SplitLuminanceInUnit ==
  (Len(gHist) >= 7 /\ In01(gParams.crossProcess)) =>
     /\ In01(splitLuminance(gHist[7]))
     /\ In01(liftWeightOf(splitLuminance(gHist[7])))
     /\ In01(gammaWeightOf(splitLuminance(gHist[7])))
     /\ In01(gainWeightOf(splitLuminance(gHist[7])))



(***************************************************************************)
(* SpecNearest: the identity LUT is generated and applied to one pixel,    *)
(* its red channel taking every 8-bit value                                *)
(***************************************************************************)
ChannelSet == 0..255
OtherChannels == {<<0, 255>>, <<128, 8>>, <<17, 240>>}

InitNearest ==
  /\ lutParams = IdentityParams
  /\ bakePc = "call"
  /\ writes = <<>>
  /\ lutDataURL = ""
  /\ IdleCurve /\ IdleCorr /\ IdleGrade /\ IdleApply /\ IdleMore

\* lines 282-323: a one-pixel source image has loaded and is read
ApplyBeginPixel(r, gb) ==
  /\ bakePc = "done"
  /\ applyPc = "idle"
  /\ sourceImg' = ImageOf(1, 1, <<<<r, gb[1], gb[2], 255>>>>)
  /\ sourceData' = sourceImg'.data
  /\ ai' = 0
  /\ applyPc' = "loop"
  /\ UNCHANGED graded
  /\ UNCHANGED <<curveVars, corrVars, gradeVars, bakeVars, moreVars>>

NextNearest ==
  \/ GenerateLUT
  \/ \E r \in ChannelSet, gb \in OtherChannels : ApplyBeginPixel(r, gb)
  \/ ApplyPixel
  \/ ApplyResolve

SpecNearest == InitNearest /\ [][NextNearest]_vars

\* C27: for every channel value c the index round(c/255*15) is in 0..15, the
\* position read is inside the 256 x 16 buffer, the index is the nearest
\* cell (|17*index - c| <= 8), and the identity LUT changes the channel by at
\* most 8 and not at all when c is a multiple of 17
C27_NearestCell ==
  applyPc = "resolved" =>
    /\ \A k \in 0..2 :
         /\ lutCoordinate(sourceImg.data[k]) \in 0..(cubeSize - 1)
         /\ Abs(17 * lutCoordinate(sourceImg.data[k]) - sourceImg.data[k]) <= 8
         /\ Abs(graded.data[k] - sourceImg.data[k]) <= 8
         /\ sourceImg.data[k] % 17 = 0 => graded.data[k] = sourceImg.data[k]
    /\ lutPosition(lutCoordinate(sourceImg.data[0]),
                   lutCoordinate(sourceImg.data[1]),
                   lutCoordinate(sourceImg.data[2])) \in 0..(bufferLength - 4)

\* a channel half-way between two cells was moved by 8, and a multiple of 17
\* was kept
C27_Witness ==
  /\ applyPc = "resolved"
  /\ sourceImg.data[0] = 8 /\ graded.data[0] = 0
  /\ sourceImg.data[1] = 17 /\ graded.data[1] = 17
  /\ sourceImg.data[2] = 240 /\ graded.data[2] = 238



\* a step of the editor that is neither a button press nor a release and
\* does not end a drag: a mouse move (or a mouse leave with no drag active)
MoveStep ==
  /\ events' = events + 1
  /\ pressed' = pressed
  /\ draggedIndex' = draggedIndex

\* C30: a drag is active only after a mouse-down and before the next
\* mouse-up or mouse-leave; a mouse move with no drag active leaves the
\* curve as it is, and a move during a drag replaces the dragged point alone,
\* with y in [0, 1], and keeps the number of points
C30_MoveOnlyDuringDrag ==
  [][/\ draggedIndex # NoIndex => pressed
     /\ MoveStep =>
          IF draggedIndex = NoIndex THEN points' = points
          ELSE /\ Len(points') = Len(points)
               /\ \A k \in 1..Len(points) :
                    k # draggedIndex + 1 => points'[k] = points[k]
               /\ In01(points'[draggedIndex + 1].y)]_vars

\* a midpoint handle was grabbed and the inserted point dragged away
C30_Witness ==
  /\ draggedMidpointIndex # NoIndex
  /\ draggedIndex = draggedMidpointIndex + 1
  /\ Len(points) = Len(DefaultCurve) + 1
  /\ changed.calls >= 2
  /\ points[draggedIndex + 1].y = One



\* ---------------------------------------------------------------------------
\* The Map component (components/Map.tsx)

MaxMapEvents == 5
\* distinct lutBase64 strings, named by number
MapLuts == {1, 2}
\* the drawing buffer, in device pixels
CanvasWidth == 16
CanvasHeight == 12
devicePixelRatio == 2
\* pointer positions relative to the map element, in CSS pixels
Pointers == {<<1, 1>>, <<3, 2>>, <<6, 5>>}
gridSize == 11
halfGrid == gridSize \div 2

\* one byte of the drawing buffer at WebGL coordinates (gx, gy); the picture
\* depends on the theme the instance renders with
canvasByte(gx, gy, c, theme) ==
  IF gx < 0 \/ gx >= CanvasWidth \/ gy < 0 \/ gy >= CanvasHeight THEN 0
  ELSE CASE c = 0 -> (gx * 17) % 256
         [] c = 1 -> ((CanvasHeight - 1 - gy) * 23) % 256
         [] c = 2 -> (theme * 40 + gx + gy) % 256
         [] OTHER -> 255

\* gl.readPixels(x0, y0, gridSize, gridSize, RGBA, UNSIGNED_BYTE, pixels):
\* rows bottom to top, pixels outside the buffer stay 0
readPixels(x0, y0, theme) ==
  [k \in 1..(gridSize * gridSize * 4) |->
     canvasByte(x0 + (((k - 1) \div 4) % gridSize),
                y0 + (((k - 1) \div 4) \div gridSize), (k - 1) % 4, theme)]

\* Map.tsx 78-98: the grid handleMouseMove reads around the pointer
gridAt(x, y, theme) ==
  readPixels(x * devicePixelRatio - halfGrid,
             (CanvasHeight - y * devicePixelRatio - 1) - halfGrid, theme)

\* Map.tsx 111-130: the colour handleClick reports from a grid
pickedColor(pixels) ==
  LET centerPixel == gridSize \div 2
      flippedIndex == ((gridSize - 1 - centerPixel) * gridSize + centerPixel) * 4
  IN  [r |-> Q(pixels[flippedIndex + 1], 255),
       g |-> Q(pixels[flippedIndex + 2], 255),
       b |-> Q(pixels[flippedIndex + 3], 255)]

newMap(l) == [themeData |-> l, removed |-> FALSE, configured |-> 0]

\* the component after its first render and effects: one instance, created
\* with the LUT of that render (Map.tsx 20-39), then configured (49-54)
InitMap ==
  /\ IdleCore /\ IdleLater("map")
  /\ mapMounted = TRUE
  /\ mapLut \in MapLuts
  /\ mapInstances = <<[newMap(mapLut) EXCEPT !.configured = 1]>>
  /\ mapCurrent = 1
  /\ isPickingColor = FALSE
  /\ pixelGridRef = <<>>
  /\ sessionGrid = <<>>
  /\ pickerReports = <<>>
  /\ mapEvents = 0

\* the effects of a render with lutBase64 = l. When l differs from the last
\* render's the first effect's cleanup removes the instance (41-46), the
\* effect creates another (20-39) and the second effect configures it (49-54)
renderMap(l) ==
  /\ mapLut' = l
  /\ IF l = mapLut
       THEN UNCHANGED <<mapCurrent, mapInstances>>
       ELSE /\ mapCurrent' = Len(mapInstances) + 1
            /\ mapInstances' =
                 Append([mapInstances EXCEPT ![mapCurrent].removed = TRUE],
                        [newMap(l) EXCEPT !.configured = 1])

\* the parent renders with another LUT
ChangeLut(l) ==
  /\ mapMounted /\ mapEvents < MaxMapEvents
  /\ l # mapLut
  /\ renderMap(l)
  /\ mapEvents' = mapEvents + 1
  /\ UNCHANGED <<mapMounted, isPickingColor, pixelGridRef, sessionGrid, pickerReports>>

\* App.tsx 352-354 and Map.tsx 57-134: a picking session starts, the
\* listeners are attached
StartPicking ==
  /\ mapMounted /\ mapEvents < MaxMapEvents
  /\ ~isPickingColor
  /\ isPickingColor' = TRUE
  /\ sessionGrid' = <<>>
  /\ mapEvents' = mapEvents + 1
  /\ UNCHANGED <<mapCurrent, mapInstances, mapMounted, mapLut, pixelGridRef, pickerReports>>

\* Map.tsx 66-106; gl is the canvas's WebGL context, when it has one
handleMapMouseMove(p, gl) ==
  /\ mapMounted /\ mapEvents < MaxMapEvents
  /\ isPickingColor
  /\ IF gl
       THEN /\ pixelGridRef' = <<gridAt(p[1], p[2], mapInstances[mapCurrent].themeData)>>
            /\ sessionGrid' = pixelGridRef'
       ELSE UNCHANGED <<pixelGridRef, sessionGrid>>
  /\ mapEvents' = mapEvents + 1
  /\ UNCHANGED <<mapCurrent, mapInstances, mapMounted, mapLut, isPickingColor, pickerReports>>

\* Map.tsx 108-131 with App.tsx 356-367: the click reports the centre pixel,
\* the parent stores it, ends the session and renders with the LUT l that the
\* changed corrections give
handleMapClick(l) ==
  /\ mapMounted /\ mapEvents < MaxMapEvents
  /\ isPickingColor
  /\ mapEvents' = mapEvents + 1
  /\ IF pixelGridRef = <<>>
       THEN /\ l = mapLut
            /\ UNCHANGED <<mapCurrent, mapInstances, mapLut, isPickingColor, pickerReports>>
       ELSE /\ pickerReports' = Append(pickerReports, pickedColor(pixelGridRef[1]))
            /\ isPickingColor' = FALSE
            /\ renderMap(l)
  /\ UNCHANGED <<mapMounted, pixelGridRef, sessionGrid>>

\* Map.tsx 41-46 and 136-140: the cleanups of the last render
UnmountMap ==
  /\ mapMounted
  /\ mapMounted' = FALSE
  /\ mapInstances' = [mapInstances EXCEPT ![mapCurrent].removed = TRUE]
  /\ mapCurrent' = 0
  /\ isPickingColor' = FALSE
  /\ UNCHANGED <<mapLut, pixelGridRef, sessionGrid, pickerReports, mapEvents>>

NextMap ==
  \/ \E l \in MapLuts : ChangeLut(l) /\ UNCHANGED notMap
  \/ StartPicking /\ UNCHANGED notMap
  \/ \E p \in Pointers, gl \in BOOLEAN : handleMapMouseMove(p, gl) /\ UNCHANGED notMap
  \/ \E l \in MapLuts : handleMapClick(l) /\ UNCHANGED notMap
  \/ UnmountMap /\ UNCHANGED notMap

SpecMap == InitMap /\ [][NextMap]_vars

\* C23: while the component is mounted its first map instance is the only one
\* it has created and has not been removed: a change of lutBase64 neither
\* removes nor recreates the map.
C23_MapCreatedOnce ==
  mapMounted => Len(mapInstances) = 1 /\ ~mapInstances[1].removed /\ mapCurrent = 1

\* C26: a click during a picking session reports the centre pixel of the grid
\* last read by a mouse move of that session, and reports nothing when the
\* session has had no mouse move.
C26_ClickReportsSessionGrid ==
  [][(isPickingColor /\ mapMounted /\ pickerReports' # pickerReports) =>
       /\ sessionGrid # <<>>
       /\ pickerReports' = Append(pickerReports, pickedColor(sessionGrid[1]))]_vars



\* a step of handleColorPicked: it alone ends a pick
PickedStep == pickingColorForId # <<>> /\ pickingColorForId' = <<>>

\* C25: handleColorPicked, when a pick is in progress for id k, sets
\* targetColor of the correction with id k to the picked colour, leaves its
\* other fields, the other corrections, the list's order and length and the
\* rest of the state as they were, and ends the pick.
C25_PickSetsTargetOnly ==
  [][PickedStep =>
       /\ Len(app'.colorCorrections) = Len(app.colorCorrections)
       /\ \E c \in PickedColors :
            \A i \in 1..Len(app.colorCorrections) :
              IF app.colorCorrections[i].id = pickingColorForId[1]
                THEN app'.colorCorrections[i] =
                       [app.colorCorrections[i] EXCEPT !.targetColor = c]
                ELSE app'.colorCorrections[i] = app.colorCorrections[i]
       /\ \A f \in DOMAIN app \ {"colorCorrections"} : app'[f] = app[f]]_vars

C25_Witness ==
  /\ pickingColorForId = <<>>
  /\ Len(app.colorCorrections) = 2
  /\ app.colorCorrections[1].id # app.colorCorrections[2].id
  /\ app.colorCorrections[1].targetColor = Grey
  /\ app.colorCorrections[2].targetColor = Red



\* ---------------------------------------------------------------------------
\* The promise of applyLUTToImage (utils/lutUtils.ts 282-360): the image
\* loads, the contexts and the calls of resolve and reject

\* the variables of the other later specifications
besidePromise == <<pointVars, workerVars, roundVars, editorVars, wheelVars,
                   vibrancyVars, distanceVars, appVars, previewVars, mapVars>>

rejection(reason) == [kind |-> "rejected", reason |-> reason]
resolution(value) == [kind |-> "resolved", value |-> value]

InitPromise ==
  /\ lutParams = TintedParams
  /\ bakePc = "call"
  /\ writes = <<>>
  /\ lutDataURL = ""
  /\ IdleCurve /\ IdleCorr /\ IdleGrade /\ IdleApply /\ IdleLater("promise")
  /\ settlements = <<>>
  /\ sourceState = "unset"
  /\ lutState = "unset"
  /\ lutCtx = "unasked"
  /\ sourceCtx = "unasked"

\* lines 282-289, 356-357: the call; the handlers are set and the source
\* image starts to load
callApplyLUTToImage(img) ==
  /\ bakePc = "done"
  /\ applyPc = "idle"
  /\ sourceImg' = img
  /\ sourceState' = "loading"
  /\ applyPc' = "source"
  /\ UNCHANGED <<ai, sourceData, graded, settlements, lutState, lutCtx, sourceCtx>>
  /\ UNCHANGED <<curveVars, corrVars, gradeVars, bakeVars, besidePromise>>

\* line 356: sourceImg.onerror
sourceOnerror ==
  /\ sourceState = "loading"
  /\ sourceState' = "failed"
  /\ settlements' = Append(settlements, rejection("Failed to load source image"))
  /\ applyPc' = "rejected"
  /\ UNCHANGED <<sourceImg, ai, sourceData, graded, lutState, lutCtx, sourceCtx>>
  /\ UNCHANGED <<curveVars, corrVars, gradeVars, bakeVars, besidePromise>>

\* lines 289-292, 352-353: sourceImg.onload sets the LUT image's handlers and
\* starts its load
sourceOnload ==
  /\ sourceState = "loading"
  /\ sourceState' = "loaded"
  /\ lutState' = "loading"
  /\ applyPc' = "lut"
  /\ UNCHANGED <<sourceImg, ai, sourceData, graded, settlements, lutCtx, sourceCtx>>
  /\ UNCHANGED <<curveVars, corrVars, gradeVars, bakeVars, besidePromise>>

\* line 352: lutImg.onerror
lutOnerror ==
  /\ lutState = "loading"
  /\ lutState' = "failed"
  /\ settlements' = Append(settlements, rejection("Failed to load LUT image"))
  /\ applyPc' = "rejected"
  /\ UNCHANGED <<sourceImg, ai, sourceData, graded, sourceState, lutCtx, sourceCtx>>
  /\ UNCHANGED <<curveVars, corrVars, gradeVars, bakeVars, besidePromise>>

\* lines 326-346: one iteration of the pixel loop, on the data of the canvas
mapPixel(data, i) ==
  [data EXCEPT
     ![i]     = lutDataAt(lutDataURL,
                          lutPosition(lutCoordinate(data[i]), lutCoordinate(data[i + 1]),
                                      lutCoordinate(data[i + 2]))),
     ![i + 1] = lutDataAt(lutDataURL,
                          lutPosition(lutCoordinate(data[i]), lutCoordinate(data[i + 1]),
                                      lutCoordinate(data[i + 2])) + 1),
     ![i + 2] = lutDataAt(lutDataURL,
                          lutPosition(lutCoordinate(data[i]), lutCoordinate(data[i + 1]),
                                      lutCoordinate(data[i + 2])) + 2)]

\* line 326: for (let i = 0; i < sourceData.length; i += 4)
RECURSIVE mapPixelsFrom(_, _, _)
mapPixelsFrom(data, i, length) ==
  IF i < length THEN mapPixelsFrom(mapPixel(data, i), i + 4, length) ELSE data

\* lines 292-350 with the context checks left out
lutOnloadUnchecked(lc, sc) ==
  /\ lutState = "loading"
  /\ lutState' = "loaded"
  /\ lutCtx' = IF lc THEN "ok" ELSE "null"
  /\ sourceCtx' = IF sc THEN "ok" ELSE "null"
  /\ ai' = 4 * sourceImg.width * sourceImg.height
  /\ sourceData' = mapPixelsFrom(sourceImg.data, 0, ai')
  /\ graded' = [width |-> sourceImg.width, height |-> sourceImg.height,
                data |-> sourceData']
  /\ settlements' = Append(settlements, resolution(graded'))
  /\ applyPc' = "resolved"
  /\ UNCHANGED <<sourceImg, sourceState>>
  /\ UNCHANGED <<curveVars, corrVars, gradeVars, bakeVars, besidePromise>>

\* lines 292-350: lutImg.onload; lc and sc tell whether getContext('2d')
\* gives a context for the LUT canvas and for the source canvas
lutOnload(lc, sc) ==
  /\ lutState = "loading"
  /\ lutState' = "loaded"
  /\ lutCtx' = IF lc THEN "ok" ELSE "null"
  /\ IF ~lc
       THEN /\ settlements' = Append(settlements, rejection("Could not get LUT context"))
            /\ applyPc' = "rejected"
            /\ UNCHANGED <<sourceCtx, sourceData, ai, graded>>
       ELSE /\ sourceCtx' = IF sc THEN "ok" ELSE "null"
            /\ IF ~sc
                 THEN /\ settlements' =
                           Append(settlements, rejection("Could not get source context"))
                      /\ applyPc' = "rejected"
                      /\ UNCHANGED <<sourceData, ai, graded>>
                 ELSE /\ ai' = 4 * sourceImg.width * sourceImg.height
                      /\ sourceData' = mapPixelsFrom(sourceImg.data, 0, ai')
                      /\ graded' = [width |-> sourceImg.width,
                                    height |-> sourceImg.height,
                                    data |-> sourceData']
                      /\ settlements' = Append(settlements, resolution(graded'))
                      /\ applyPc' = "resolved"
  /\ UNCHANGED <<sourceImg, sourceState>>
  /\ UNCHANGED <<curveVars, corrVars, gradeVars, bakeVars, besidePromise>>

NextPromise ==
  \/ GenerateLUT
  \/ \E img \in ImageSet : callApplyLUTToImage(img)
  \/ sourceOnerror
  \/ sourceOnload
  \/ lutOnerror
  \/ \E lc \in BOOLEAN, sc \in BOOLEAN : lutOnload(lc, sc)

\* the handlers the browser calls
imageEvent ==
  \/ sourceOnerror
  \/ sourceOnload
  \/ lutOnerror
  \/ \E lc \in BOOLEAN, sc \in BOOLEAN : lutOnload(lc, sc)

\* the browser fires one of the two handlers of an image that is loading
SpecPromise == InitPromise /\ [][NextPromise]_vars /\ WF_vars(imageEvent)

\* byte i of the picture the LUT image lut maps the picture img to
mappedByte(img, lut, i) ==
  IF i % 4 = 3 THEN img.data[i]
  ELSE lutDataAt(lut, lutPosition(lutCoordinate(img.data[i - (i % 4)]),
                                  lutCoordinate(img.data[i - (i % 4) + 1]),
                                  lutCoordinate(img.data[i - (i % 4) + 2]))
                      + (i % 4))

PromiseSafe ==
  /\ Len(settlements) <= 1
  /\ sourceState = "failed" =>
       /\ settlements = <<rejection("Failed to load source image")>>
       /\ lutState = "unset"
  /\ lutState # "unset" => sourceState = "loaded"
  /\ lutState = "failed" => settlements = <<rejection("Failed to load LUT image")>>
  /\ lutCtx = "null" => settlements = <<rejection("Could not get LUT context")>>
  /\ sourceCtx = "null" => settlements = <<rejection("Could not get source context")>>
  /\ (settlements # <<>> /\ settlements[1].kind = "resolved") =>
       /\ sourceState = "loaded" /\ lutState = "loaded"
       /\ lutCtx = "ok" /\ sourceCtx = "ok"
       /\ ai = 4 * sourceImg.width * sourceImg.height
       /\ settlements[1].value.width = sourceImg.width
       /\ settlements[1].value.height = sourceImg.height
       /\ \A i \in 0..(ai - 1) :
            settlements[1].value.data[i] = mappedByte(sourceImg, lutDataURL, i)

\* C29: the promise is settled at most once and, once the call is made, is
\* settled: rejected with the source error when the source image fails (the
\* LUT load then never starts), with the LUT error when the LUT image fails,
\* with a context error when a context is missing, and resolved otherwise,
\* after every pixel has been mapped; the LUT load starts only after the
\* source image has loaded.
C29_SettlesOnce ==
  /\ []PromiseSafe
  /\ (sourceState = "loading") ~> (Len(settlements) = 1)

C29_Witness ==
  /\ settlements # <<>>
  /\ settlements[1].kind = "resolved"
  /\ sourceImg.width * sourceImg.height = MaxPixels
  /\ settlements[1].value.data # sourceImg.data

=============================================================================
